---------------------------- MODULE Spec2Model ----------------------------
(***************************************************************************)
(* A model of the bye-bye-flag orchestration engine: the scheduler         *)
(* (processFlags), a removal attempt (removeFlag), the review-record       *)
(* admission filter (filterFlagsWithExistingPRs), workspace reclamation    *)
(* (cleanupStaleWorktrees) and workspace creation under the per-repository *)
(* lock (setupMultiRepoWorktrees, withRepoOperationLock).                  *)
(*                                                                         *)
(* JavaScript runs one continuation at a time, so an action is the code    *)
(* between two awaits that wait for I/O (a subprocess, a file operation).  *)
(***************************************************************************)
EXTENDS Integers, Sequences, FiniteSets, TLC

\* ------------------------------------------------------------------ bounds
NumRepos == 2
MaxPrsBound == 2
MaxConcurrency == 2
MaxRecords == 3

\* orchestrator/index.ts: const MAX_CONSECUTIVE_FAILURES = 3
MAX_CONSECUTIVE_FAILURES == 3

\* the queues of the general runs: as many flags as failures trip the breaker
NumFlags == MAX_CONSECUTIVE_FAILURES

Max(a, b) == IF a >= b THEN a ELSE b

\* the queue that shows the breaker racing: three failures, one success and one
\* flag still queued
BreakerFlags == MAX_CONSECUTIVE_FAILURES + 2

Keys == 1..BreakerFlags
Flags == 1..NumFlags
Repos == 1..NumRepos

\* reposDir as given on the command line, and as fs.realpath resolves it
RootPaths == {"/tmp/repos", "/private/tmp/repos", "/srv/other"}
OwnRootPaths == {"/tmp/repos", "/private/tmp/repos"}

VARIABLES
  \* --- configuration of the run
  dryRun,               \* config.dryRun / --dry-run
  maxPrs,               \* config.maxPrs
  concurrency,          \* config.concurrency
  keepWorktree,         \* --keep-worktree (only the remove command passes it)
  reposDir,             \* configContext.reposDir
  \* --- the world outside the process
  history,              \* the review records of every repository and flag key
  gitFails,             \* may `git worktree remove` exit non-zero in this run
  remoteBranch,         \* per flag key: the repositories whose origin holds its branch
  workspace,            \* the workspace directory of every flag key, on disk
  \* --- runWithFlags / filterFlagsWithExistingPRs
  prsByRepo,            \* const prsByRepo = new Map<string, Map<string, ExistingPR>>()
  cleanupQueue,         \* the worktreeDirs cleanupStaleWorktrees has still to visit
  \* --- processFlags
  queue,                \* flags -> flagsToProcess -> flagsWithCode -> queue
  results,              \* skippedFlags -> allSkipped -> results
  remainingPrBudget,    \* let remainingPrBudget
  consecutiveFailures,  \* let consecutiveFailures
  shouldStop,           \* let shouldStop
  inFlight,             \* const inFlight = new Set<Promise<void>>()
  mainPc,               \* where runWithFlags / processFlags / the CLI stands
  \* --- one removal attempt per flag (processOneFlag / removeFlag)
  tpc,                  \* where the attempt of a flag stands
  reserved,             \* const reserved, captured by the task closure
  outcome,              \* RemovalResult.status, "none" while there is none
  prRepos,              \* the repositories in which the attempt opened a PR
  repoResults,          \* let repoResults: RepoResult[] | undefined, of removeFlag
  scaffoldResult,       \* let scaffoldResult: is it non-null
  \* --- observation only
  everTripped,          \* the counter has reached MAX_CONSECUTIVE_FAILURES
  \* --- setupMultiRepoWorktrees / withRepoOperationLock, per caller and repository
  repoOperationLocks,   \* const repoOperationLocks: whose tail the map holds, 0: none
  previous,             \* const previous: the tail found in the map, 0: none
  released,             \* has release() been called: is `current` resolved
  repoPc,               \* where the repoSetupPromise of the repository stands
  \* --- the agent runtime (adapters.ts, invoke.ts, output.ts)
  invoke,               \* invokeAgent: where it stands, its options and locals
  cli,                  \* runCli: the child process, its timer and its locals
  parseCall,            \* a call of parseAgentOutputFromText: text and result
  contract,             \* createExecutionContract: its input and its contract
  stripCall,            \* a call of stripArgPairOrInline: arguments and result
  \* --- process-tracker.ts
  tracker,              \* the child processes, the tracked set and the shutdown
  isolation             \* the candidate list of a run and the workspace of each task

configVars == <<dryRun, maxPrs, concurrency, keepWorktree, reposDir>>
worldVars == <<history, gitFails, remoteBranch, workspace>>
runVars == <<prsByRepo, cleanupQueue>>
schedVars == <<queue, results, remainingPrBudget, consecutiveFailures, shouldStop,
               inFlight, mainPc>>
taskVars == <<tpc, reserved, outcome, prRepos, repoResults, scaffoldResult>>
lockVars == <<repoOperationLocks, previous, released, repoPc>>
agentVars == <<invoke, cli, parseCall, contract, stripCall, tracker, isolation>>
vars == <<configVars, worldVars, runVars, schedVars, taskVars, everTripped, lockVars,
          agentVars>>

\* ----------------------------------------------------------------- helpers
\* let repoResults: RepoResult[] | undefined, before commitAndPushMultiRepo has
\* returned and after removeFlag has
Undefined == [r \in Repos |-> "undefined"]

\* queue.splice(i, 1): the queue without its i-th element
RemoveAt(q, i) == [j \in 1..(Len(q) - 1) |-> IF j < i THEN q[j] ELSE q[j + 1]]

\* results.reduce((sum, r) => sum + (r.prUrls?.length ?? 0), 0)
RECURSIVE PrsCreated(_)
PrsCreated(rs) == IF rs = <<>> THEN 0 ELSE Head(rs).prUrls + PrsCreated(Tail(rs))

\* ------------------------------------------------------- workspaces on disk
\* the metadata file of a workspace: absent, or what JSON.parse yields
NoFile == [createdBy |-> "none", reposDir |-> "none"]
MetadataFiles == {NoFile} \cup [createdBy : {"bye-bye-flag", "other"}, reposDir : RootPaths]

\* a workspace directory: does it exist, its metadata file, the repositories
\* whose `git worktree list` holds the check-out <workspace>/<repo>, and whether
\* the directory holds other entries (files or directories that are no
\* registered check-out)
NoWorkspace == [exists |-> FALSE, meta |-> NoFile, registered |-> {}, others |-> FALSE]

\* normalizePath: fs.realpath (here /tmp is a link to /private/tmp)
NormalizePath(p) == IF p = "/tmp/repos" THEN "/private/tmp/repos" ELSE p

WriteWorkspaceMetadata_NotWritten(dir) == NoFile

\* writeWorkspaceMetadata: createdBy and path.resolve(reposDir)
WriteWorkspaceMetadata(dir) == [createdBy |-> "bye-bye-flag", reposDir |-> dir]

\* readWorkspaceMetadata: null ("none") unless the file is there and createdBy is
\* 'bye-bye-flag'; otherwise the recorded reposDir
ReadWorkspaceMetadata(ws) ==
  IF ws.exists /\ ws.meta.createdBy = "bye-bye-flag" THEN ws.meta.reposDir ELSE "none"

\* the workspace a successful setupMultiRepoWorktrees leaves
FreshWorkspace(dir) ==
  [exists |-> TRUE, meta |-> WriteWorkspaceMetadata(dir), registered |-> Repos,
   others |-> FALSE]

\* ---------------------------------------------------------- review records
ReviewRecords == [state : {"OPEN", "CLOSED"}, declined : BOOLEAN]
NoPR == [state |-> "NONE", declined |-> FALSE, url |-> "none"]

\* the repositories whose origin holds the branch of flag key k when a run or a
\* remove command starts: those where a review record of the key is OPEN (the
\* head branch of an open PR)
RemoteBranches ==
  [k \in Keys |-> {r \in Repos : \E i \in 1..Len(history[r][k]) :
                                   history[r][k][i].state = "OPEN"}]

DeleteRemoteBranch_Default == TRUE

\* removeFlag calls setupMultiRepoWorktrees with deleteRemoteBranch: !dryRun
DeleteRemoteBranch == ~dryRun

\* if (deleteRemoteBranch) `git push origin --delete <branch>` with reject: false,
\* for the repositories rs: the branch is deleted there, or the command exits
\* non-zero and the branch stays
PushDelete(b, rs) ==
  IF DeleteRemoteBranch THEN {b \ gone : gone \in SUBSET (b \cap rs)} ELSE {b}

ExistingPR_NewestOnly(h) ==
  IF h = <<>> THEN NoPR
  ELSE [state |-> h[1].state, declined |-> h[1].declined,
        url |-> IF h[1].declined THEN "declined"
                ELSE IF h[1].state = "OPEN" THEN "open" ELSE "closed"]

\* the record fetchAllFlagPRs / findExistingPR return for the records of one flag
\* key in one repository: none without records, OPEN if any record is OPEN,
\* declined if any record is declined; url is that of the representative record,
\* named here by its kind: a declined record if there is one, else an OPEN one,
\* else the newest closed one
ExistingPR(h) ==
  IF h = <<>> THEN NoPR
  ELSE [state |-> IF \E i \in 1..Len(h) : h[i].state = "OPEN" THEN "OPEN" ELSE "CLOSED",
        declined |-> \E i \in 1..Len(h) : h[i].declined,
        url |-> IF \E i \in 1..Len(h) : h[i].declined THEN "declined"
                ELSE IF \E i \in 1..Len(h) : h[i].state = "OPEN" THEN "open"
                ELSE "closed"]

\* a flag key is blocked: an OPEN or a declined record in some repository
Blocked(k) ==
  \E r \in Repos : \E i \in 1..Len(history[r][k]) :
    history[r][k][i].state = "OPEN" \/ history[r][k][i].declined

\* ----------------------------------------------------------- processFlags
FindIndex_Head(q, budget) == IF Len(q) > 0 THEN 1 ELSE 0

FindIndex_AtLeast(q, budget) ==
  LET fits == {i \in 1..Len(q) : Cardinality(q[i].reposWithCode) >= budget}
  IN IF fits = {} THEN 0 ELSE CHOOSE i \in fits : \A j \in fits : i <= j

\* queue.findIndex((f) => f.reposWithCode.length <= remainingPrBudget); 0 for -1
FindIndex(q, budget) ==
  LET fits == {i \in 1..Len(q) : Cardinality(q[i].reposWithCode) <= budget}
  IN IF fits = {} THEN 0 ELSE CHOOSE i \in fits : \A j \in fits : i <= j

\* const reserved = Math.max(1, flag.reposWithCode.length)
Reservation(flag) == Max(1, Cardinality(flag.reposWithCode))

\* the prefixes {1}, {1,2}, ... of the configured repositories: processFlags reads
\* only the length of reposWithCode, and filterFlagsWithCodeReferences passes on
\* only flags with at least one repository
CodeRepoSets == {1..n : n \in 1..NumRepos}

\* the promise of fetchAllFlagPRs(repoPath) for one repository: pending, fulfilled
\* ("ok") with the map it resolved to, or rejected ("failed")
NotFetched == [status |-> "pending", prs |-> [k \in Keys |-> NoPR]]

\* no call of the agent runtime is under way
NoCall == [pc |-> "idle"]

\* the agent runtime at rest
AgentIdle ==
  /\ invoke = NoCall
  /\ cli = NoCall
  /\ parseCall = NoCall
  /\ contract = NoCall
  /\ stripCall = NoCall
  /\ tracker = NoCall
  /\ isolation = NoCall

\* no run and no removal attempt has started
RunIdle ==
  /\ prsByRepo = [r \in Repos |-> NotFetched]
  /\ cleanupQueue = <<>>
  /\ results = <<>>
  /\ remainingPrBudget = maxPrs
  /\ consecutiveFailures = 0
  /\ shouldStop = FALSE
  /\ inFlight = {}
  /\ tpc = [f \in Keys |-> "queued"]
  /\ reserved = [f \in Keys |-> 0]
  /\ outcome = [f \in Keys |-> "none"]
  /\ prRepos = [f \in Keys |-> {}]
  /\ repoResults = [f \in Keys |-> Undefined]
  /\ scaffoldResult = [f \in Keys |-> FALSE]
  /\ everTripped = FALSE
  /\ repoOperationLocks = [r \in Repos |-> 0]
  /\ previous = [c \in Keys |-> [r \in Repos |-> 0]]
  /\ released = [c \in Keys |-> [r \in Repos |-> FALSE]]
  /\ repoPc = [c \in Keys |-> [r \in Repos |-> "idle"]]

\* what is common to every initial state: nothing fetched, nothing started
InitIdle ==
  /\ AgentIdle
  /\ RunIdle

\* processFlags is entered with any queue of flags that have code references
InitSched ==
  /\ dryRun \in BOOLEAN
  /\ maxPrs \in 0..MaxPrsBound
  /\ concurrency \in 1..MaxConcurrency
  /\ keepWorktree = FALSE
  /\ reposDir = "/tmp/repos"
  /\ history = [r \in Repos |-> [k \in Keys |-> <<>>]]
  /\ gitFails = FALSE
  /\ remoteBranch = RemoteBranches
  /\ workspace = [k \in Keys |-> NoWorkspace]
  /\ \E rwc \in [Flags -> CodeRepoSets] :
       queue = [i \in 1..NumFlags |-> [key |-> i, reposWithCode |-> rwc[i]]]
  /\ mainPc = "entry"
  /\ InitIdle

NoBudget_Never(max) == FALSE

\* config.maxPrs <= 0
NoBudget(max) == max <= 0

\* if (config.maxPrs <= 0) return { results, remaining: queue }
ProcessFlagsEntry ==
  /\ mainPc = "entry"
  /\ mainPc' = IF NoBudget(maxPrs) THEN "returned" ELSE "fill"
  /\ UNCHANGED <<queue, results, remainingPrBudget, consecutiveFailures, shouldStop,
                 inFlight>>
  /\ UNCHANGED <<agentVars, configVars, worldVars, runVars, taskVars, everTripped, lockVars>>

CanStartOne_NoPoolLimit ==
  /\ ~shouldStop
  /\ remainingPrBudget > 0
  /\ Len(queue) > 0
  /\ FindIndex(queue, remainingPrBudget) # 0

\* the four early returns of tryStartOne and the failed findIndex
CanStartOne ==
  /\ ~shouldStop
  /\ Cardinality(inFlight) < concurrency
  /\ remainingPrBudget > 0
  /\ Len(queue) > 0
  /\ FindIndex(queue, remainingPrBudget) # 0

\* tryStartOne() returning true: a flag is taken from the queue and its task starts
TryStartOne ==
  /\ mainPc = "fill"
  /\ CanStartOne
  /\ LET nextIndex == FindIndex(queue, remainingPrBudget)
         flag == queue[nextIndex]
     IN /\ queue' = RemoveAt(queue, nextIndex)
        /\ reserved' = [reserved EXCEPT ![flag.key] = Reservation(flag)]
        /\ remainingPrBudget' = remainingPrBudget - Reservation(flag)
        /\ inFlight' = inFlight \cup {flag.key}
        /\ tpc' = [tpc EXCEPT ![flag.key] = "prereq"]
  /\ UNCHANGED <<results, consecutiveFailures, shouldStop, mainPc>>
  /\ UNCHANGED <<outcome, prRepos, repoResults, scaffoldResult>>
  /\ UNCHANGED <<agentVars, configVars, worldVars, runVars, everTripped, lockVars>>

\* tryStartOne() returning false: the pool is full or nothing can start;
\* if (inFlight.size === 0) break; await Promise.race(inFlight)
FillDone ==
  /\ mainPc = "fill"
  /\ ~CanStartOne
  /\ mainPc' = IF inFlight = {} THEN "returned" ELSE "wait"
  /\ UNCHANGED <<queue, results, remainingPrBudget, consecutiveFailures, shouldStop,
                 inFlight>>
  /\ UNCHANGED <<agentVars, configVars, worldVars, runVars, taskVars, everTripped, lockVars>>

\* await Promise.all(inFlight) after the loop was left with shouldStop set
ProcessFlagsReturn ==
  /\ mainPc = "drain"
  /\ inFlight = {}
  /\ mainPc' = "returned"
  /\ UNCHANGED <<queue, results, remainingPrBudget, consecutiveFailures, shouldStop,
                 inFlight>>
  /\ UNCHANGED <<agentVars, configVars, worldVars, runVars, taskVars, everTripped, lockVars>>

\* a task continues only while its caller is suspended in an await: processFlags in
\* Promise.race / Promise.all, the remove command in `await removeFlag(...)`
TasksMayRun == mainPc \in {"wait", "drain", "standalone"}

\* options.skipFetch: the orchestrator passes true, the remove command nothing
SkipFetch == mainPc # "standalone"

\* -------------------------------------------------------------- removeFlag
\* what one repository reports after commitAndPushMultiRepo
RepoStatuses == {"success", "no-changes", "failed"}

\* commitAndPushMultiRepo(scaffoldResult.repos, ...): one RepoResult per configured
\* repository; a repository whose check-out has a diff gets a commit and a PR
\* ("success", with prUrl), one without gets "no-changes", a git or gh error "failed"
CommitAndPushMultiRepo == [Repos -> RepoStatuses]

StatusAfterCommit_AnyFailureFails(rs) ==
  IF \E r \in Repos : rs[r] = "failed" THEN "failed" ELSE "success"

\* removeFlag after the commit: failed only if some repository failed and none
\* produced a PR
StatusAfterCommit(rs) ==
  LET successCount == Cardinality({r \in Repos : rs[r] = "success"})
      failedResults == {r \in Repos : rs[r] = "failed"}
  IN IF failedResults # {} /\ successCount = 0 THEN "failed" ELSE "success"

\* const prUrls = result.repoResults?.filter((r) => r.prUrl)
PrUrls(rs) == {r \in Repos : rs[r] = "success"}

\* checkPrerequisites: with errors the attempt returns 'failed' before any work
\* (createFlagLogger throwing ends in the catch of processOneFlag the same way)
RemoveFlagStart(f) ==
  /\ TasksMayRun
  /\ tpc[f] = "prereq"
  /\ \/ /\ tpc' = [tpc EXCEPT ![f] = IF SkipFetch THEN "scaffold" ELSE "preflight"]
        /\ UNCHANGED outcome
     \/ /\ tpc' = [tpc EXCEPT ![f] = "finally"]
        /\ outcome' = [outcome EXCEPT ![f] = "failed"]
  /\ UNCHANGED <<reserved, prRepos, repoResults, scaffoldResult>>
  /\ UNCHANGED <<agentVars, configVars, worldVars, runVars, schedVars, everTripped, lockVars>>

\* if (!dryRun) { ... findExistingPR ... }: the remove command looks for review
\* records only outside dry-run
StandaloneChecksPRs == ~dryRun

\* the loop over findExistingPR(repoPath, flagKey): refused at the first repository
\* whose record is declined or OPEN
RefusedByExistingPR(f) ==
  \E r \in Repos :
    ExistingPR(history[r][f]).declined \/ ExistingPR(history[r][f]).state = "OPEN"

\* the remove command (skipFetch unset): fetchAllRepos, the check for existing PRs,
\* then flagExistsInCodebase; findExistingPR throws when discovery fails, and
\* removeFlag throws with it
StandalonePreflight(f) ==
  /\ TasksMayRun
  /\ tpc[f] = "preflight"
  /\ \/ /\ StandaloneChecksPRs
        /\ tpc' = [tpc EXCEPT ![f] = "threw"]
        /\ mainPc' = "aborted"
        /\ UNCHANGED outcome
     \/ /\ StandaloneChecksPRs /\ RefusedByExistingPR(f)
        /\ tpc' = [tpc EXCEPT ![f] = "finally"]
        /\ outcome' = [outcome EXCEPT ![f] = "refused"]
        /\ UNCHANGED mainPc
     \/ /\ ~(StandaloneChecksPRs /\ RefusedByExistingPR(f))
        /\ \/ /\ tpc' = [tpc EXCEPT ![f] = "finally"]
              /\ outcome' = [outcome EXCEPT ![f] = "success"]
           \/ /\ tpc' = [tpc EXCEPT ![f] = "scaffold"]
              /\ UNCHANGED outcome
        /\ UNCHANGED mainPc
  /\ UNCHANGED <<queue, results, remainingPrBudget, consecutiveFailures, shouldStop,
                 inFlight>>
  /\ UNCHANGED <<reserved, prRepos, repoResults, scaffoldResult>>
  /\ UNCHANGED <<agentVars, configVars, worldVars, runVars, everTripped, lockVars>>

\* what a setupMultiRepoWorktrees that throws leaves of the workspace: the directory
\* with its metadata and whatever check-outs were registered before, when the
\* repository validation threw (no rollback there); or, after the rollback, no
\* directory and the check-outs whose removal failed
FailedSetupLeaves(ws, dir) ==
  {[exists |-> TRUE, meta |-> WriteWorkspaceMetadata(dir), registered |-> ws.registered,
    others |-> ws.others]}
  \cup {[exists |-> FALSE, meta |-> NoFile, registered |-> stuck, others |-> FALSE] :
          stuck \in (IF gitFails THEN SUBSET Repos ELSE {{}})}

\* scaffoldResult = await setupMultiRepoWorktrees(...): the workspace exists when it
\* returns; when it throws the attempt is 'failed' and scaffoldResult stays null
SetupWorktrees(f) ==
  /\ TasksMayRun
  /\ tpc[f] = "scaffold"
  /\ \/ /\ tpc' = [tpc EXCEPT ![f] = "agent"]
        /\ workspace' = [workspace EXCEPT ![f] = FreshWorkspace(reposDir)]
        /\ scaffoldResult' = [scaffoldResult EXCEPT ![f] = TRUE]
        /\ UNCHANGED outcome
     \/ /\ tpc' = [tpc EXCEPT ![f] = "finally"]
        /\ outcome' = [outcome EXCEPT ![f] = "failed"]
        /\ \E left \in FailedSetupLeaves(workspace[f], reposDir) :
             workspace' = [workspace EXCEPT ![f] = left]
        /\ UNCHANGED scaffoldResult
  /\ \E b \in PushDelete(remoteBranch[f], Repos) :
       remoteBranch' = [remoteBranch EXCEPT ![f] = b]
  /\ UNCHANGED <<reserved, prRepos, repoResults>>
  /\ UNCHANGED <<agentVars, configVars, history, gitFails, runVars, schedVars, everTripped, lockVars>>

\* agentRuntime.invoke(...): the agent refuses, succeeds, or the invocation throws
\* (timeout, unparsable output); in dry-run a success returns without a commit
InvokeAgent(f) ==
  /\ TasksMayRun
  /\ tpc[f] = "agent"
  /\ \/ /\ outcome' = [outcome EXCEPT ![f] = "refused"]
        /\ tpc' = [tpc EXCEPT ![f] = "finally"]
     \/ /\ outcome' = [outcome EXCEPT ![f] = "failed"]
        /\ tpc' = [tpc EXCEPT ![f] = "finally"]
     \/ /\ dryRun
        /\ outcome' = [outcome EXCEPT ![f] = "success"]
        /\ tpc' = [tpc EXCEPT ![f] = "finally"]
     \/ /\ ~dryRun
        /\ tpc' = [tpc EXCEPT ![f] = "commit"]
        /\ UNCHANGED outcome
  /\ UNCHANGED <<reserved, prRepos, repoResults, scaffoldResult>>
  /\ UNCHANGED <<agentVars, configVars, worldVars, runVars, schedVars, everTripped, lockVars>>

\* repoResults = await commitAndPushMultiRepo(...) and the status derived from it
CommitAndPush(f) ==
  /\ TasksMayRun
  /\ tpc[f] = "commit"
  /\ \E rs \in CommitAndPushMultiRepo :
       /\ repoResults' = [repoResults EXCEPT ![f] = rs]
       /\ prRepos' = [prRepos EXCEPT ![f] = PrUrls(rs)]
       /\ outcome' = [outcome EXCEPT ![f] = StatusAfterCommit(rs)]
  /\ tpc' = [tpc EXCEPT ![f] = "finally"]
  /\ UNCHANGED <<reserved, scaffoldResult>>
  /\ UNCHANGED <<agentVars, configVars, worldVars, runVars, schedVars, everTripped, lockVars>>

ShouldKeep_IgnoresKeepWorktree(f) == ~dryRun /\ prRepos[f] # {}

\* the finally block: prCreated = !dryRun && repoResults.some(success);
\* shouldKeep = keepWorktree || prCreated
ShouldKeep(f) == keepWorktree \/ (~dryRun /\ prRepos[f] # {})

\* the check-outs whose `git worktree remove --force` may exit non-zero
MayFailToRemove(ws) == IF gitFails THEN SUBSET ws.registered ELSE {{}}

\* cleanupMultiRepoWorktrees: cleanupWorktree logs a failed removal and goes on
\* (the check-outs in `stuck` stay registered); fs.rm then deletes the directory
CleanupMultiRepoWorktrees(ws, stuck) ==
  [exists |-> FALSE, meta |-> NoFile, registered |-> stuck, others |-> FALSE]

\* the workspace after the finally block of removeFlag
AfterFinally(f, stuck) ==
  IF scaffoldResult[f] /\ ~ShouldKeep(f)
  THEN CleanupMultiRepoWorktrees(workspace[f], stuck)
  ELSE workspace[f]

CounterAfter_FailureNotCounted(status, counter) == IF status = "failed" THEN counter ELSE 0

\* consecutiveFailures after processOneFlag has seen the result
CounterAfter(status, counter) ==
  IF status = "failed" THEN counter + 1 ELSE 0

\* removeFlag returns to processOneFlag (its finally block destroys the workspace
\* unless it is kept) and processOneFlag runs on to its
\* `await flagLogger.finish(...)`: the counter is reset or incremented before it
RemoveFlagReturn(f) ==
  /\ mainPc \in {"wait", "drain"}
  /\ tpc[f] = "finally"
  /\ \E stuck \in MayFailToRemove(workspace[f]) :
       workspace' = [workspace EXCEPT ![f] = AfterFinally(f, stuck)]
  /\ consecutiveFailures' = CounterAfter(outcome[f], consecutiveFailures)
  /\ everTripped' = (everTripped \/ consecutiveFailures' >= MAX_CONSECUTIVE_FAILURES)
  /\ tpc' = [tpc EXCEPT ![f] = "logging"]
  /\ UNCHANGED <<queue, results, remainingPrBudget, shouldStop, inFlight, mainPc>>
  /\ repoResults' = [repoResults EXCEPT ![f] = Undefined]
  /\ UNCHANGED <<reserved, outcome, prRepos, scaffoldResult>>
  /\ UNCHANGED <<agentVars, configVars, history, gitFails, remoteBranch, runVars, lockVars>>

\* removeFlag returns to the remove command, which prints the result and exits
StandaloneReturn(f) ==
  /\ mainPc = "standalone"
  /\ tpc[f] = "finally"
  /\ \E stuck \in MayFailToRemove(workspace[f]) :
       workspace' = [workspace EXCEPT ![f] = AfterFinally(f, stuck)]
  /\ tpc' = [tpc EXCEPT ![f] = "done"]
  /\ mainPc' = "returned"
  /\ UNCHANGED <<queue, results, remainingPrBudget, consecutiveFailures, shouldStop,
                 inFlight>>
  /\ repoResults' = [repoResults EXCEPT ![f] = Undefined]
  /\ UNCHANGED <<reserved, outcome, prRepos, scaffoldResult>>
  /\ UNCHANGED <<agentVars, configVars, history, gitFails, remoteBranch, runVars, everTripped, lockVars>>

\* FlagResult.status recorded for a RemovalResult.status
LogStatusOf(status) ==
  CASE status = "success" -> "complete"
    [] status = "refused" -> "skipped"
    [] OTHER -> "failed"

\* the number processOneFlag returns: prUrls.length on success, 0 otherwise
PrsFromFlag(f) == IF outcome[f] = "success" THEN Cardinality(prRepos[f]) ELSE 0

Refund_AlsoInDryRun(isDryRun, res, prsFromFlag) ==
  IF res - prsFromFlag > 0 THEN res - prsFromFlag ELSE 0

Refund_All(isDryRun, res, prsFromFlag) == IF ~isDryRun THEN res ELSE 0

\* if (!config.dryRun) { const unused = reserved - prsFromFlag;
\*                       if (unused > 0) remainingPrBudget += unused }
Refund(isDryRun, res, prsFromFlag) ==
  IF ~isDryRun /\ res - prsFromFlag > 0 THEN res - prsFromFlag ELSE 0

\* after a failed result: if (consecutiveFailures >= MAX_CONSECUTIVE_FAILURES)
StopAfter(status, counter, stop) ==
  stop \/ (status = "failed" /\ counter >= MAX_CONSECUTIVE_FAILURES)

\* flagLogger.finish has settled: the result is pushed, a failed task checks the
\* counter, processOneFlag returns, the task closure refunds, .finally removes the
\* task from inFlight, and Promise.race wakes the loop of processFlags, which
\* re-tests shouldStop. These continuations follow each other as microtasks, with
\* no I/O wait between them.
RecordResult(f) ==
  /\ mainPc \in {"wait", "drain"}
  /\ tpc[f] = "logging"
  /\ results' = Append(results, [key |-> f, status |-> LogStatusOf(outcome[f]),
                                  prUrls |-> PrsFromFlag(f),
                                  skippedReason |-> IF outcome[f] = "refused"
                                                    THEN "refused" ELSE "none"])
  /\ shouldStop' = StopAfter(outcome[f], consecutiveFailures, shouldStop)
  /\ remainingPrBudget' = remainingPrBudget + Refund(dryRun, reserved[f], PrsFromFlag(f))
  /\ inFlight' = inFlight \ {f}
  /\ tpc' = [tpc EXCEPT ![f] = "done"]
  /\ reserved' = [reserved EXCEPT ![f] = 0]
  /\ outcome' = [outcome EXCEPT ![f] = "none"]
  /\ prRepos' = [prRepos EXCEPT ![f] = {}]
  /\ scaffoldResult' = [scaffoldResult EXCEPT ![f] = FALSE]
  /\ UNCHANGED repoResults
  /\ mainPc' = IF mainPc = "wait"
               THEN (IF shouldStop' THEN "drain" ELSE "fill")
               ELSE mainPc
  /\ UNCHANGED <<queue, consecutiveFailures>>
  /\ UNCHANGED <<agentVars, configVars, worldVars, runVars, everTripped, lockVars>>

NextSched ==
  \/ ProcessFlagsEntry
  \/ TryStartOne
  \/ FillDone
  \/ ProcessFlagsReturn
  \/ \E f \in Keys : RemoveFlagStart(f)
  \/ \E f \in Keys : SetupWorktrees(f)
  \/ \E f \in Keys : InvokeAgent(f)
  \/ \E f \in Keys : CommitAndPush(f)
  \/ \E f \in Keys : RemoveFlagReturn(f)
  \/ \E f \in Keys : RecordResult(f)

Spec == InitSched /\ [][NextSched]_vars

\* processFlags entered outside dry-run with BreakerFlags flags of one repository
\* each and the largest pool and budget
InitBreaker ==
  /\ dryRun = FALSE
  /\ maxPrs = MaxPrsBound
  /\ concurrency = MaxConcurrency
  /\ keepWorktree = FALSE
  /\ reposDir = "/tmp/repos"
  /\ history = [r \in Repos |-> [k \in Keys |-> <<>>]]
  /\ gitFails = FALSE
  /\ remoteBranch = RemoteBranches
  /\ workspace = [k \in Keys |-> NoWorkspace]
  /\ queue = [i \in 1..BreakerFlags |-> [key |-> i, reposWithCode |-> {1}]]
  /\ mainPc = "entry"
  /\ InitIdle

SpecBreaker == InitBreaker /\ [][NextSched]_vars

\* ------------------------------------------------------- scheduler claims
\* a step that admits a task: some flag leaves the queue and its attempt starts
Admission == \E f \in Keys : tpc[f] = "queued" /\ tpc'[f] = "prereq"

\* C1: outside dry-run the PRs of all recorded results never number more than maxPrs
C1_BudgetNeverExceeded == ~dryRun => PrsCreated(results) <= maxPrs

\* C2: outside dry-run, the step that completes a task which reserved r and produced
\* p <= r PRs raises remainingPrBudget by exactly r - p, and no other step of that
\* task after its admission changes remainingPrBudget
C2_RefundExact ==
  [][\A f \in Keys :
       /\ (tpc[f] = "logging" /\ tpc'[f] = "done" /\ ~dryRun
             /\ PrsFromFlag(f) <= reserved[f])
            => remainingPrBudget' = remainingPrBudget + (reserved[f] - PrsFromFlag(f))
       /\ (tpc[f] # tpc'[f] /\ tpc[f] \notin {"queued", "logging"})
            => remainingPrBudget' = remainingPrBudget]_vars

\* C2 witness: outside dry-run the only task admitted so far was refused and has
\* completed, and the budget is back at maxPrs: its whole reservation was refunded
C2_Witness_FullRefund ==
  /\ ~dryRun
  /\ Len(results) = 1
  /\ results[1].status = "skipped"
  /\ Len(queue) = NumFlags - 1
  /\ inFlight = {}
  /\ remainingPrBudget = maxPrs

\* C5: the tasks admitted and not yet completed never number more than concurrency
C5_ConcurrencyBound == Cardinality(inFlight) <= concurrency

\* C5 witness: the pool is full while the budget, the queue and the stop flag would
\* let another task start
C5_Witness_PoolFull ==
  /\ Cardinality(inFlight) = concurrency
  /\ ~shouldStop
  /\ remainingPrBudget > 0
  /\ Len(queue) > 0
  /\ FindIndex(queue, remainingPrBudget) # 0
  /\ mainPc = "wait"

\* C6: once consecutiveFailures has reached MAX_CONSECUTIVE_FAILURES no step admits
\* a task, and processFlags returns only with every admitted task completed and
\* recorded
C6_BreakerLatched ==
  /\ [][everTripped => ~Admission]_vars
  /\ [](mainPc = "returned" =>
          /\ inFlight = {}
          /\ \A f \in Keys : tpc[f] \in {"queued", "done"}
          /\ \A f \in Keys : tpc[f] = "done" => \E i \in 1..Len(results) : results[i].key = f)

\* ---------------------------------------------------------- runWithFlags
\* the flags of a whole run: key 1 may have review records and a workspace kept by an
\* earlier run, the others have neither
RunKeys == Flags

OpenRecord == [state |-> "OPEN", declined |-> FALSE]
ClosedRecord == [state |-> "CLOSED", declined |-> FALSE]
DeclinedRecord == [state |-> "CLOSED", declined |-> TRUE]

\* the review histories of key 1 in the first repository (newest record first)
SampleHistories ==
  {<<>>, <<OpenRecord>>, <<ClosedRecord>>, <<DeclinedRecord>>, <<ClosedRecord, OpenRecord>>,
   <<OpenRecord, DeclinedRecord>>}

\* the review records a run or a remove command finds
InitHistory ==
  \E h1 \in SampleHistories : \E h2 \in {<<>>, <<OpenRecord>>} :
    history = [r \in Repos |-> [k \in Keys |->
                 IF k # 1 THEN <<>> ELSE IF r = 1 THEN h1 ELSE h2]]

\* the workspaces on disk: key 1 may have the workspace an earlier run kept
InitWorkspaces ==
  \E ws \in {NoWorkspace, FreshWorkspace(reposDir)} :
    workspace = [k \in Keys |-> IF k = 1 THEN ws ELSE NoWorkspace]

\* runWithFlags is called with the flags of RunKeys (reposWithCode not yet known);
\* the tasks of these runs go one after the other
InitRun ==
  /\ dryRun \in BOOLEAN
  /\ maxPrs \in {0, MaxPrsBound}
  /\ concurrency = 1
  /\ keepWorktree = FALSE
  /\ reposDir = "/tmp/repos"
  /\ InitHistory
  /\ gitFails \in BOOLEAN
  /\ remoteBranch = RemoteBranches
  /\ InitWorkspaces
  /\ queue = [i \in 1..Cardinality(RunKeys) |-> [key |-> i, reposWithCode |-> {}]]
  /\ mainPc = "fetchPRs"
  /\ InitIdle

FetchOutcome_Swallowed(r, ok, pc) ==
  [promise |-> [status |-> IF ok THEN "ok" ELSE "failed",
                prs |-> [k \in Keys |-> IF ok THEN ExistingPR(history[r][k]) ELSE NoPR]],
   pc |-> pc]

\* what the promise of fetchAllFlagPRs settles to, and where filterFlagsWithExistingPRs
\* stands then: a rejection rejects Promise.all, and runWithFlags throws with it
FetchOutcome(r, ok, pc) ==
  IF ok
  THEN [promise |-> [status |-> "ok", prs |-> [k \in Keys |-> ExistingPR(history[r][k])]],
        pc |-> pc]
  ELSE [promise |-> [status |-> "failed", prs |-> [k \in Keys |-> NoPR]],
        pc |-> "aborted"]

\* const prs = await fetchAllFlagPRs(repoPath); prsByRepo.set(repoName, prs).
\* The fetches of the other repositories stay pending when one has failed, and
\* settle later.
FetchAllFlagPRs(r) ==
  /\ mainPc \in {"fetchPRs", "aborted"}
  /\ prsByRepo[r].status = "pending"
  /\ \E ok \in BOOLEAN :
       /\ prsByRepo' = [prsByRepo EXCEPT ![r] = FetchOutcome(r, ok, mainPc).promise]
       /\ mainPc' = FetchOutcome(r, ok, mainPc).pc
  /\ UNCHANGED <<queue, results, remainingPrBudget, consecutiveFailures, shouldStop,
                 inFlight>>
  /\ UNCHANGED <<agentVars, configVars, worldVars, cleanupQueue, taskVars, everTripped, lockVars>>

\* fs.readdir(worktreeBasePath) filtered to the remove-flag-* directories
RECURSIVE WorktreeDirs(_)
WorktreeDirs(k) ==
  IF k > BreakerFlags THEN <<>>
  ELSE (IF workspace[k].exists THEN <<k>> ELSE <<>>) \o WorktreeDirs(k + 1)

AllFetched_AnyRepo == \E r \in Repos : prsByRepo[r].status = "ok"

\* await Promise.all(repoNames.map(...)): every fetch has fulfilled
AllFetched == \A r \in Repos : prsByRepo[r].status = "ok"

\* Promise.all has resolved: if (!dryRun) await cleanupStaleWorktrees(...)
FetchDone ==
  /\ mainPc = "fetchPRs"
  /\ AllFetched
  /\ mainPc' = IF dryRun THEN "filter" ELSE "cleanup"
  /\ cleanupQueue' = IF dryRun THEN <<>> ELSE WorktreeDirs(1)
  /\ UNCHANGED <<queue, results, remainingPrBudget, consecutiveFailures, shouldStop,
                 inFlight>>
  /\ UNCHANGED <<agentVars, configVars, worldVars, prsByRepo, taskVars, everTripped, lockVars>>

\* ------------------------------------------------- cleanupStaleWorktrees
\* the flag keys that contain a '/' (such as "team/checkout"); the others are made
\* of letters, digits, '-' and '_'
SlashKeys == {3}

\* the flag key cleanupStaleWorktrees reads off a workspace directory. The directory
\* of key k is named branchName.replace(/\//g, '-') with branchName = 'remove-flag/' + k,
\* and the key read back is dir.name.replace('remove-flag-', ''): k itself unless k
\* holds a '/', and then a string that is no flag's key (0)
FlagKeyOfDir(k) == IF k \in SlashKeys THEN 0 ELSE k

\* prsByRepo.get(repoName)?.get(flagKey): the maps are keyed by the flag key that
\* follows 'remove-flag/' in the branch name
RepoPRsGet(r, flagKey) == IF flagKey \in Keys THEN prsByRepo[r].prs[flagKey] ELSE NoPR

\* the loop over repoNames that sets hasOpenPR for the directory of key k
HasOpenPR(k) == \E r \in Repos : RepoPRsGet(r, FlagKeyOfDir(k)).state = "OPEN"

WorkspaceOwnedByCurrentRun_Always(ws, dir) == TRUE

\* metadataReposDir === normalizedReposDir, metadataReposDir being null without
\* metadata
WorkspaceOwnedByCurrentRun(ws, dir) ==
  /\ ReadWorkspaceMetadata(ws) # "none"
  /\ NormalizePath(ReadWorkspaceMetadata(ws)) = NormalizePath(dir)

\* the body of the loop for one directory whose flag has no OPEN record: the
\* workspaces it can leave (stuck: the check-outs whose removal exits non-zero)
CleanupStaleWorkspace(ws, dir, stuck) ==
  IF ReadWorkspaceMetadata(ws) # "none" /\ ~WorkspaceOwnedByCurrentRun(ws, dir)
  THEN ws
  ELSE IF ~WorkspaceOwnedByCurrentRun(ws, dir) /\ ws.registered = {}
  THEN ws
  ELSE IF stuck # {}
  THEN [ws EXCEPT !.registered = stuck]
  ELSE NoWorkspace

\* one iteration of `for (const dir of worktreeDirs)`
CleanupStaleDir ==
  /\ mainPc = "cleanup"
  /\ cleanupQueue # <<>>
  /\ LET k == Head(cleanupQueue)
     IN IF HasOpenPR(k)
        THEN UNCHANGED workspace
        ELSE \E stuck \in MayFailToRemove(workspace[k]) :
               workspace' = [workspace EXCEPT
                               ![k] = CleanupStaleWorkspace(workspace[k], reposDir, stuck)]
  /\ cleanupQueue' = Tail(cleanupQueue)
  /\ UNCHANGED <<agentVars, configVars, history, gitFails, remoteBranch, prsByRepo, schedVars, taskVars,
                 everTripped, lockVars>>

\* cleanupStaleWorktrees returns to filterFlagsWithExistingPRs
CleanupDone ==
  /\ mainPc = "cleanup"
  /\ cleanupQueue = <<>>
  /\ mainPc' = "filter"
  /\ UNCHANGED <<queue, results, remainingPrBudget, consecutiveFailures, shouldStop,
                 inFlight>>
  /\ UNCHANGED <<agentVars, configVars, worldVars, runVars, taskVars, everTripped, lockVars>>

\* --------------------------------------------- filterFlagsWithExistingPRs
\* declinedPRs.length > 0, else openPRs.length > 0, else the flag is passed on
SkippedByExistingPR(k) ==
  \/ \E r \in Repos : prsByRepo[r].prs[k].declined
  \/ \E r \in Repos : prsByRepo[r].prs[k].state = "OPEN"

SkippedReason_OpenFirst(k) ==
  IF \E r \in Repos : prsByRepo[r].prs[k].state = "OPEN" THEN "Open PR"
  ELSE IF \E r \in Repos : prsByRepo[r].prs[k].declined THEN "Declined"
  ELSE "none"

\* skippedReason of a flag the filter skips: 'Declined: <urls>' when declinedPRs is
\* not empty, else 'Open PR: <urls>'
SkippedReason(k) ==
  IF \E r \in Repos : prsByRepo[r].prs[k].declined THEN "Declined"
  ELSE IF \E r \in Repos : prsByRepo[r].prs[k].state = "OPEN" THEN "Open PR"
  ELSE "none"

\* the keys of a sequence of flags
KeysOf(q) == {q[i].key : i \in 1..Len(q)}

\* the flags of q whose key is in keep, in the order of q
RECURSIVE FilterFlags(_, _)
FilterFlags(q, keep) ==
  IF q = <<>> THEN <<>>
  ELSE IF Head(q).key \in keep THEN <<Head(q)>> \o FilterFlags(Tail(q), keep)
       ELSE FilterFlags(Tail(q), keep)

ResultsFor_NoneReported(q, status) == <<>>

\* the FlagResult entries pushed for the flags of q, all with one status
RECURSIVE ResultsFor(_, _)
ResultsFor(q, status) ==
  IF q = <<>> THEN <<>>
  ELSE <<[key |-> Head(q).key, status |-> status, prUrls |-> 0,
          skippedReason |-> IF status = "skipped" THEN SkippedReason(Head(q).key)
                            ELSE "none"]>>
       \o ResultsFor(Tail(q), status)

\* the in-memory filter, and runWithFlags returning when no flag passes it
FilterFlagsWithExistingPRs ==
  /\ mainPc = "filter"
  /\ LET skipped == {k \in KeysOf(queue) : SkippedByExistingPR(k)}
         flagsToProcess == FilterFlags(queue, KeysOf(queue) \ skipped)
     IN /\ queue' = flagsToProcess
        /\ results' = ResultsFor(FilterFlags(queue, skipped), "skipped")
        /\ tpc' = [k \in Keys |-> IF k \in skipped THEN "skipped" ELSE tpc[k]]
        /\ mainPc' = IF flagsToProcess = <<>> THEN "returned" ELSE "codeCheck"
  /\ UNCHANGED <<remainingPrBudget, consecutiveFailures, shouldStop, inFlight>>
  /\ UNCHANGED <<reserved, outcome, prRepos, repoResults, scaffoldResult>>
  /\ UNCHANGED <<agentVars, configVars, worldVars, runVars, everTripped, lockVars>>

\* filterFlagsWithCodeReferences: every flag gets the repositories that mention it;
\* flags without any are recorded as complete; runWithFlags returns when none is
\* left and calls processFlags otherwise
FilterFlagsWithCodeReferences ==
  /\ mainPc = "codeCheck"
  /\ \E rwc \in [KeysOf(queue) -> {{}} \cup CodeRepoSets] :
       LET withCode == {k \in KeysOf(queue) : rwc[k] # {}}
           found == [i \in 1..Len(queue) |->
                       [key |-> queue[i].key, reposWithCode |-> rwc[queue[i].key]]]
       IN /\ queue' = FilterFlags(found, withCode)
          /\ results' = results \o
                          ResultsFor(FilterFlags(queue, KeysOf(queue) \ withCode), "complete")
          /\ tpc' = [k \in Keys |-> IF k \in KeysOf(queue) \ withCode
                                    THEN "skipped" ELSE tpc[k]]
          /\ mainPc' = IF withCode = {} THEN "returned" ELSE "entry"
  /\ UNCHANGED <<remainingPrBudget, consecutiveFailures, shouldStop, inFlight>>
  /\ UNCHANGED <<reserved, outcome, prRepos, repoResults, scaffoldResult>>
  /\ UNCHANGED <<agentVars, configVars, worldVars, runVars, everTripped, lockVars>>

\* ------------------------------------------------- the remove command
\* `remove --flag=<key>`: removeFlag is called for key 1 without skipFetch
InitRemove ==
  /\ dryRun \in BOOLEAN
  /\ maxPrs = MaxPrsBound
  /\ concurrency = MaxConcurrency
  /\ keepWorktree \in BOOLEAN
  /\ reposDir = "/tmp/repos"
  /\ InitHistory
  /\ gitFails \in BOOLEAN
  /\ remoteBranch = RemoteBranches
  /\ InitWorkspaces
  /\ queue = <<>>
  /\ mainPc = "standalone"
  /\ InitIdle

\* the remove command awaits removeFlag
StandaloneStart ==
  /\ mainPc = "standalone"
  /\ tpc[1] = "queued"
  /\ tpc' = [tpc EXCEPT ![1] = "prereq"]
  /\ UNCHANGED <<reserved, outcome, prRepos, repoResults, scaffoldResult>>
  /\ UNCHANGED <<agentVars, configVars, worldVars, runVars, schedVars, everTripped, lockVars>>

NextRun ==
  \/ \E r \in Repos : FetchAllFlagPRs(r)
  \/ FetchDone
  \/ CleanupStaleDir
  \/ CleanupDone
  \/ FilterFlagsWithExistingPRs
  \/ FilterFlagsWithCodeReferences
  \/ NextSched
  \/ StandaloneStart
  \/ \E f \in Keys : StandalonePreflight(f)
  \/ \E f \in Keys : StandaloneReturn(f)

\* a whole `run`, or a `remove` of one flag
SpecRun == (InitRun \/ InitRemove) /\ [][NextRun]_vars

\* cleanupStaleWorktrees called on its own: the directory of key 1 is anything a
\* disk can hold, that of key 2 a workspace of this repos root, and key 3 may have
\* the workspace an earlier run kept; the flags of keys 1 and 3 may have an OPEN
\* record in one repository, key 1 next to closed or declined ones
InitReclaim ==
  /\ dryRun = FALSE
  /\ maxPrs = MaxPrsBound
  /\ concurrency = MaxConcurrency
  /\ keepWorktree = FALSE
  /\ reposDir \in OwnRootPaths
  /\ \E h1 \in {<<>>, <<OpenRecord>>, <<ClosedRecord>>, <<ClosedRecord, OpenRecord>>,
                 <<OpenRecord, DeclinedRecord>>} :
       \E h3 \in {<<>>, <<OpenRecord>>} : \E open \in Repos :
         history = [r \in Repos |-> [k \in Keys |->
                      IF k = 1 /\ r = open THEN h1
                      ELSE IF k = 3 /\ r = open THEN h3
                      ELSE <<>>]]
  /\ gitFails \in BOOLEAN
  /\ remoteBranch = RemoteBranches
  /\ \E meta \in MetadataFiles : \E reg \in SUBSET Repos :
       \E ws3 \in {NoWorkspace, FreshWorkspace(reposDir)} : \E others \in BOOLEAN :
         workspace = [k \in Keys |->
                        IF k = 1 THEN [exists |-> TRUE, meta |-> meta, registered |-> reg,
                                       others |-> others]
                        ELSE IF k = 2 THEN FreshWorkspace(reposDir)
                        ELSE IF k = 3 THEN ws3
                        ELSE NoWorkspace]
  /\ prsByRepo = [r \in Repos |-> FetchOutcome(r, TRUE, "cleanup").promise]
  /\ AgentIdle
  /\ cleanupQueue = WorktreeDirs(1)
  /\ queue = <<>>
  /\ results = <<>>
  /\ remainingPrBudget = maxPrs
  /\ consecutiveFailures = 0
  /\ shouldStop = FALSE
  /\ inFlight = {}
  /\ mainPc = "cleanup"
  /\ tpc = [f \in Keys |-> "queued"]
  /\ reserved = [f \in Keys |-> 0]
  /\ outcome = [f \in Keys |-> "none"]
  /\ prRepos = [f \in Keys |-> {}]
  /\ repoResults = [f \in Keys |-> Undefined]
  /\ scaffoldResult = [f \in Keys |-> FALSE]
  /\ everTripped = FALSE
  /\ repoOperationLocks = [r \in Repos |-> 0]
  /\ previous = [c \in Keys |-> [r \in Repos |-> 0]]
  /\ released = [c \in Keys |-> [r \in Repos |-> FALSE]]
  /\ repoPc = [c \in Keys |-> [r \in Repos |-> "idle"]]

NextReclaim == CleanupStaleDir \/ CleanupDone

SpecReclaim == InitReclaim /\ [][NextReclaim]_vars

\* ------------------------------------------------ admission and discovery claims
\* an attempt for key k is under way: its workspace is being or has been created, or
\* the agent or the commit runs
AttemptStarted(k) == tpc[k] \in {"scaffold", "agent", "commit"} \/ scaffoldResult[k]

\* C3: no removal attempt is started for a flag key with an OPEN or a declined review
\* record in some repository, in a run and in the remove command, dry-run or not
C3_NoAttemptForBlockedKey == \A k \in Keys : Blocked(k) => ~AttemptStarted(k)

\* C4: a failed review discovery ends the run with an error; from then on no
\* workspace changes, no task is admitted or continues and no result is recorded;
\* reclamation, filtering and admission happen only after every repository's
\* records were fetched
C4_FailClosedDiscovery ==
  /\ []((\E r \in Repos : prsByRepo[r].status = "failed") => mainPc = "aborted")
  /\ []((\E f \in Keys : tpc[f] = "threw") => mainPc = "aborted")
  /\ [](mainPc \in {"cleanup", "filter", "codeCheck", "entry", "fill", "wait", "drain"}
          => \A r \in Repos : prsByRepo[r].status = "ok")
  /\ [][mainPc = "aborted"
          => /\ mainPc' = "aborted"
             /\ workspace' = workspace
             /\ tpc' = tpc
             /\ queue' = queue
             /\ inFlight' = inFlight
             /\ results' = results]_vars

\* C4 witness: outside dry-run the fetch of one repository failed after another had
\* succeeded, the run has ended, and the stale workspace of key 1 (no OPEN record,
\* owned by this repos root) and the queued flags are untouched
C4_Witness_AbortedRun ==
  /\ mainPc = "aborted"
  /\ ~dryRun
  /\ \E r \in Repos : prsByRepo[r].status = "failed"
  /\ \E r \in Repos : prsByRepo[r].status = "ok"
  /\ ~Blocked(1)
  /\ workspace[1] = FreshWorkspace(reposDir)
  /\ Len(queue) = Cardinality(RunKeys)
  /\ \A f \in Keys : tpc[f] = "queued"

\* ------------------------------------------------------ workspace claims
\* two paths name the same directory
SameDirectory(a, b) == a = b \/ (a \in OwnRootPaths /\ b \in OwnRootPaths)

\* the metadata file of the workspace is one bye-bye-flag wrote for another repos root
ForeignWorkspace(ws) ==
  /\ ws.exists
  /\ ws.meta.createdBy = "bye-bye-flag"
  /\ ~SameDirectory(ws.meta.reposDir, reposDir)

\* C8: no step of cleanupStaleWorktrees changes a workspace whose metadata records
\* another repos root: no check-out of it is removed and it is not deleted
C8_ForeignWorkspaceUntouched ==
  [][\A k \in Keys : ForeignWorkspace(workspace[k]) => workspace'[k] = workspace[k]]_vars

\* C8 witness: cleanupStaleWorktrees has finished; the workspace of key 1 records
\* another repos root, has check-outs registered in the current clones and no OPEN
\* record, and is still there, while the own workspace of key 2 was reclaimed
C8_Witness_ForeignKept ==
  /\ mainPc = "filter"
  /\ ForeignWorkspace(workspace[1])
  /\ workspace[1].registered # {}
  /\ ~HasOpenPR(1)
  /\ workspace[2] = NoWorkspace

\* the flag of key k has a review record in state OPEN in some repository
HasOpenRecord(k) ==
  \E r \in Repos : \E i \in 1..Len(history[r][k]) : history[r][k][i].state = "OPEN"

\* C11: no step of cleanupStaleWorktrees removes a check-out of, or deletes, the
\* workspace of a flag key that has an OPEN review record in some repository
C11_ReclaimSkipsOpen ==
  [][\A k \in Keys : (mainPc = "cleanup" /\ HasOpenRecord(k))
                        => workspace'[k] = workspace[k]]_vars

\* removeFlag finishes for flag f: its finally block has run and it returns
RemoveFlagFinishes(f) == tpc[f] = "finally" /\ tpc'[f] \in {"logging", "done"}

HasDeclinedRecord(k) ==
  \E r \in Repos : \E i \in 1..Len(history[r][k]) : history[r][k][i].declined

\* the repositories whose records of key k include an OPEN and a declined one
MixedRepos(k) ==
  {r \in Repos : /\ \E i \in 1..Len(history[r][k]) : history[r][k][i].state = "OPEN"
                  /\ \E j \in 1..Len(history[r][k]) : history[r][k][j].declined}

RecordLists == UNION {[1..n -> ReviewRecords] : n \in 1..MaxRecords}

\* fetchAllFlagPRs is called for repositories of which the first holds any list
\* of records for key 1
InitReduce ==
  /\ dryRun = FALSE
  /\ maxPrs = MaxPrsBound
  /\ concurrency = MaxConcurrency
  /\ keepWorktree = FALSE
  /\ reposDir = "/tmp/repos"
  /\ \E h \in RecordLists :
       history = [r \in Repos |-> [k \in Keys |-> IF r = 1 /\ k = 1 THEN h ELSE <<>>]]
  /\ gitFails = FALSE
  /\ remoteBranch = RemoteBranches
  /\ workspace = [k \in Keys |-> NoWorkspace]
  /\ queue = <<>>
  /\ mainPc = "fetchPRs"
  /\ InitIdle

NextReduce == \E r \in Repos : FetchAllFlagPRs(r)

SpecReduce == InitReduce /\ [][NextReduce]_vars

\* the lists that hold the records of h in another order
PermutationsOf(h) ==
  {[i \in 1..Len(h) |-> h[p[i]]] :
     p \in {q \in [1..Len(h) -> 1..Len(h)] : \A a, b \in 1..Len(h) : q[a] = q[b] => a = b}}

C10_DestroyFailureKeepsWorkspace ==
  [][\A k \in Keys :
       ((mainPc = "cleanup" \/ scaffoldResult[k])
          /\ workspace[k].exists /\ ~workspace'[k].exists)
       => workspace'[k].registered = {}]_vars

\* --------------------------- setupMultiRepoWorktrees, withRepoOperationLock
\* two removal attempts that create their workspaces at the same time
Callers == {1, 2}

\* two attempts call setupMultiRepoWorktrees over the same repositories; the flag
\* of caller 2 still has the workspace of an earlier run, that of caller 1 has none
InitScaffold ==
  /\ dryRun = FALSE
  /\ maxPrs = MaxPrsBound
  /\ concurrency = MaxConcurrency
  /\ keepWorktree = FALSE
  /\ reposDir = "/tmp/repos"
  /\ history = [r \in Repos |-> [k \in Keys |-> <<>>]]
  /\ gitFails \in BOOLEAN
  /\ remoteBranch = RemoteBranches
  /\ workspace = [k \in Keys |-> IF k = 2 THEN FreshWorkspace(reposDir) ELSE NoWorkspace]
  /\ queue = <<>>
  /\ mainPc = "scaffolding"
  /\ InitIdle

\* readConfig, fs.mkdir(workspacePath, {recursive}) and writeWorkspaceMetadata
SetupStart(c) ==
  /\ mainPc = "scaffolding"
  /\ c \in Callers
  /\ tpc[c] = "queued"
  /\ workspace' = [workspace EXCEPT ![c] = [exists |-> TRUE,
                                            meta |-> WriteWorkspaceMetadata(reposDir),
                                            registered |-> workspace[c].registered,
                                            others |-> workspace[c].others]]
  /\ tpc' = [tpc EXCEPT ![c] = "validate"]
  /\ UNCHANGED <<reserved, outcome, prRepos, repoResults, scaffoldResult>>
  /\ UNCHANGED <<agentVars, configVars, history, gitFails, remoteBranch, runVars, schedVars, everTripped, lockVars>>

\* the validation of the configured repositories throws, or the repoSetupPromises
\* are created: each runs withRepoOperationLock up to its `await previous`, in the
\* order of the configured repositories and without a break between them
SetupValidate(c) ==
  /\ tpc[c] = "validate"
  /\ \/ /\ tpc' = [tpc EXCEPT ![c] = "setupThrew"]
        /\ UNCHANGED lockVars
     \/ /\ tpc' = [tpc EXCEPT ![c] = "allSettled"]
        /\ previous' = [previous EXCEPT ![c] = repoOperationLocks]
        /\ repoOperationLocks' = [r \in Repos |-> c]
        /\ repoPc' = [repoPc EXCEPT ![c] = [r \in Repos |-> "awaitPrevious"]]
        /\ UNCHANGED released
  /\ UNCHANGED <<reserved, outcome, prRepos, repoResults, scaffoldResult>>
  /\ UNCHANGED <<agentVars, configVars, worldVars, runVars, schedVars, everTripped>>

\* tail = previous.then(() => current): resolved once the tail before it is
\* resolved and release() was called; without a tail (0) Promise.resolve() stands in
RECURSIVE TailResolved(_, _)
TailResolved(c, r) ==
  IF c = 0 THEN TRUE
  ELSE released[c][r] /\ TailResolved(previous[c][r], r)

PreviousSettled_Always(c, r) == TRUE

PreviousSettled_OnceStarted(c, r) ==
  IF previous[c][r] = 0 THEN TRUE ELSE repoPc[previous[c][r]][r] # "awaitPrevious"

\* `await previous` can return: the map held no tail, or the tail it held is resolved
PreviousSettled(c, r) == TailResolved(previous[c][r], r)

\* the positions of a repoSetupPromise inside the action of withRepoOperationLock
InLock(c, r) == repoPc[c][r] \in {"removeStale", "addWorktree"}

\* await previous returns and action() is called
LockAcquired(c, r) ==
  /\ repoPc[c][r] = "awaitPrevious"
  /\ PreviousSettled(c, r)
  /\ repoPc' = [repoPc EXCEPT ![c][r] = "removeStale"]
  /\ UNCHANGED <<repoOperationLocks, previous, released>>
  /\ UNCHANGED <<agentVars, configVars, worldVars, runVars, schedVars, taskVars, everTripped>>

\* fs.access(worktreePath) and `git worktree remove --force`: a failure is swallowed
\* and leaves the stale check-out registered
RemoveStaleWorktree(c, r) ==
  /\ repoPc[c][r] = "removeStale"
  /\ \E fails \in (IF gitFails THEN BOOLEAN ELSE {FALSE}) :
       workspace' = [workspace EXCEPT ![c].registered =
                       IF fails THEN @ ELSE @ \ {r}]
  /\ repoPc' = [repoPc EXCEPT ![c][r] = "addWorktree"]
  /\ UNCHANGED <<repoOperationLocks, previous, released>>
  /\ UNCHANGED <<agentVars, configVars, history, gitFails, remoteBranch, runVars, schedVars, taskVars, everTripped>>

AddWorktree_NotReleasedOnThrow(c, r) ==
  /\ repoPc[c][r] = "addWorktree"
  /\ \/ /\ r \notin workspace[c].registered
        /\ workspace' = [workspace EXCEPT ![c].registered = @ \cup {r}]
        /\ repoPc' = [repoPc EXCEPT ![c][r] = "runSetup"]
        /\ released' = [released EXCEPT ![c][r] = TRUE]
        /\ repoOperationLocks' = [repoOperationLocks EXCEPT
                                    ![r] = IF @ = c THEN 0 ELSE @]
     \/ /\ repoPc' = [repoPc EXCEPT ![c][r] = "addFailed"]
        /\ UNCHANGED <<workspace, released, repoOperationLocks>>
  /\ UNCHANGED previous
  /\ \E b \in PushDelete(remoteBranch[c], {r}) :
       remoteBranch' = [remoteBranch EXCEPT ![c] = b]
  /\ UNCHANGED <<agentVars, configVars, history, gitFails, runVars, schedVars, taskVars, everTripped>>

AddWorktree_HeldThroughSetup(c, r) ==
  /\ repoPc[c][r] = "addWorktree"
  /\ \/ /\ r \notin workspace[c].registered
        /\ workspace' = [workspace EXCEPT ![c].registered = @ \cup {r}]
        /\ repoPc' = [repoPc EXCEPT ![c][r] = "runSetup"]
        /\ UNCHANGED <<released, repoOperationLocks>>
     \/ /\ repoPc' = [repoPc EXCEPT ![c][r] = "addFailed"]
        /\ released' = [released EXCEPT ![c][r] = TRUE]
        /\ repoOperationLocks' = [repoOperationLocks EXCEPT
                                    ![r] = IF @ = c THEN 0 ELSE @]
        /\ UNCHANGED workspace
  /\ UNCHANGED previous
  /\ \E b \in PushDelete(remoteBranch[c], {r}) :
       remoteBranch' = [remoteBranch EXCEPT ![c] = b]
  /\ UNCHANGED <<agentVars, configVars, history, gitFails, runVars, schedVars, taskVars, everTripped>>

\* `git branch -D` and, if deleteRemoteBranch, `git push origin --delete` (both with
\* reject: false), then
\* `git worktree add -b`: it fails on a path that is still registered and can fail
\* for any other reason; either way the finally block calls release() and deletes
\* the map entry if it is still this call's tail
AddWorktree(c, r) ==
  /\ repoPc[c][r] = "addWorktree"
  /\ \/ /\ r \notin workspace[c].registered
        /\ workspace' = [workspace EXCEPT ![c].registered = @ \cup {r}]
        /\ repoPc' = [repoPc EXCEPT ![c][r] = "runSetup"]
     \/ /\ repoPc' = [repoPc EXCEPT ![c][r] = "addFailed"]
        /\ UNCHANGED workspace
  /\ released' = [released EXCEPT ![c][r] = TRUE]
  /\ repoOperationLocks' = [repoOperationLocks EXCEPT
                              ![r] = IF @ = c THEN 0 ELSE @]
  /\ UNCHANGED previous
  /\ \E b \in PushDelete(remoteBranch[c], {r}) :
       remoteBranch' = [remoteBranch EXCEPT ![c] = b]
  /\ UNCHANGED <<agentVars, configVars, history, gitFails, runVars, schedVars, taskVars, everTripped>>

\* runSetupCommands, outside the lock: the promise is fulfilled or a command fails
RunSetupCommands(c, r) ==
  /\ repoPc[c][r] = "runSetup"
  /\ \E to \in {"fulfilled", "setupFailed"} :
       repoPc' = [repoPc EXCEPT ![c][r] = to]
  /\ UNCHANGED <<repoOperationLocks, previous, released>>
  /\ UNCHANGED <<agentVars, configVars, worldVars, runVars, schedVars, taskVars, everTripped>>

\* Promise.allSettled has returned: with a failure, cleanupWorktree for every
\* configured repository (a failed removal is logged), fs.rm of the workspace and
\* the aggregated error; without, the ScaffoldResult
AllSettled(c) ==
  /\ tpc[c] = "allSettled"
  /\ \A r \in Repos : repoPc[c][r] \in {"fulfilled", "addFailed", "setupFailed"}
  /\ IF \E r \in Repos : repoPc[c][r] # "fulfilled"
     THEN /\ \E stuck \in MayFailToRemove(workspace[c]) :
               workspace' = [workspace EXCEPT
                               ![c] = CleanupMultiRepoWorktrees(workspace[c], stuck)]
          /\ tpc' = [tpc EXCEPT ![c] = "setupThrew"]
     ELSE /\ tpc' = [tpc EXCEPT ![c] = "setupDone"]
          /\ UNCHANGED workspace
  /\ repoPc' = [repoPc EXCEPT ![c] = [r \in Repos |-> "settled"]]
  /\ UNCHANGED <<repoOperationLocks, previous, released>>
  /\ UNCHANGED <<reserved, outcome, prRepos, repoResults, scaffoldResult>>
  /\ UNCHANGED <<agentVars, configVars, history, gitFails, remoteBranch, runVars, schedVars, everTripped>>

NextScaffold ==
  \/ \E c \in Callers : SetupStart(c)
  \/ \E c \in Callers : SetupValidate(c)
  \/ \E c \in Callers : \E r \in Repos : LockAcquired(c, r)
  \/ \E c \in Callers : \E r \in Repos : RemoveStaleWorktree(c, r)
  \/ \E c \in Callers : \E r \in Repos : AddWorktree(c, r)
  \/ \E c \in Callers : \E r \in Repos : RunSetupCommands(c, r)
  \/ \E c \in Callers : AllSettled(c)

SpecScaffold == InitScaffold /\ [][NextScaffold]_vars

\* ------------------------------------------------- workspace creation claims
\* a setupMultiRepoWorktrees that returns leaves what SetupWorktrees says, and one
\* that throws one of the workspaces of FailedSetupLeaves
SetupWorktreesAgrees ==
  \A c \in Callers :
    /\ tpc[c] = "setupDone" => workspace[c] = FreshWorkspace(reposDir)
    /\ tpc[c] = "setupThrew" =>
         \E before \in {NoWorkspace, FreshWorkspace(reposDir)} :
           workspace[c] \in FailedSetupLeaves(before, reposDir)

\* C7: at no time are two callers inside the locked sequence of the same repository,
\* and a caller waits for the lock of a repository only while another caller is
\* inside or queued for the lock of that same repository
C7_RepoLockExclusive ==
  \A r \in Repos :
    /\ Cardinality({c \in Callers : InLock(c, r)}) <= 1
    /\ \A c \in Callers :
         (repoPc[c][r] = "awaitPrevious"
            /\ \A d \in Callers \ {c} : ~InLock(d, r) /\ repoPc[d][r] # "awaitPrevious")
         => PreviousSettled(c, r)

\* C7 witness: caller 1 is inside the locked sequence of repository 1 and caller 2
\* waits for it, while caller 2 is inside the locked sequence of another repository
C7_Witness_WaitAndParallel ==
  /\ InLock(1, 1)
  /\ repoPc[2][1] = "awaitPrevious"
  /\ ~PreviousSettled(2, 1)
  /\ \E r \in Repos \ {1} : InLock(2, r)

\* the check-outs the call itself has registered
CreatedByCall(c) == {r \in Repos : repoPc[c][r] \in {"runSetup", "fulfilled", "setupFailed"}}

\* C9: the step in which setupMultiRepoWorktrees throws leaves no workspace
\* directory and no registered check-out that the call created
C9_NoPartialWorkspace ==
  [][\A c \in Callers :
       (tpc[c] # "setupThrew" /\ tpc'[c] = "setupThrew") =>
         /\ ~workspace'[c].exists
         /\ workspace'[c].registered \cap CreatedByCall(c) = {}]_vars

\* ------------------------------------------------- invokeAgent and runCli
\* const MAX_NORMALIZE_DURATION_MS = 5 * 60 * 1000
MAX_NORMALIZE_DURATION_MS == 300000

\* result.stdout.length > 800 ? result.stdout.slice(0, 800) + ... : result.stdout
PreviewLimit == 800

Min(a, b) == IF a <= b THEN a ELSE b

\* options.timeoutMs: one minute, five minutes, the default of sixty minutes
TimeoutChoicesMs == {60000, MAX_NORMALIZE_DURATION_MS, 3600000}

\* what a child has written to stdout: nothing, or text of some length from which
\* parseAgentOutputFromText gets an AgentOutput (success, refused) or null (invalid)
NoStdout == [kind |-> "empty", len |-> 0]
Stdouts == [kind : {"success", "refused", "invalid"},
            len : {1, PreviewLimit, PreviewLimit + 1}]

\* parseAgentOutputFromText(stdout), by the status of the AgentOutput or "null"
ParsedStatus(stdout) ==
  IF stdout.kind \in {"success", "refused"} THEN stdout.kind ELSE "null"

\* the promise runCli returns, while pending
Pending == [settled |-> FALSE, stdout |-> NoStdout, timedOut |-> FALSE]

\* how a subprocess can behave: does it exit on its own, does it exit when it gets
\* SIGTERM, and can the signal be delivered to it (kill fails with EPERM for a
\* process of another user, such as a command started through sudo)
ChildBehaviours == [exitsOnOwn : BOOLEAN, honoursTerm : BOOLEAN, killable : BOOLEAN]

\* runCli up to the return of its promise: spawn('bash', ['-c', cmd]),
\* registerChildProcess, setTimeout(..., timeoutMs), stdin written and ended
RunCli(timeoutMs, behaviour) ==
  [pc |-> "spawned", child |-> "running", timer |-> "armed", timeoutMs |-> timeoutMs,
   stdout |-> NoStdout, timedOut |-> FALSE, sigterm |-> FALSE,
   behaviour |-> behaviour, result |-> Pending]

\* resolve(value): the first call settles the promise, later calls do nothing
Resolve(promise, stdout, timedOut) ==
  IF promise.settled THEN promise
  ELSE [settled |-> TRUE, stdout |-> stdout, timedOut |-> timedOut]

\* child.on('error', ...): resolve({ stdout, timedOut: false, exitCode: 1 })
OnError(c) == Resolve(c.result, c.stdout, FALSE)

\* invokeAgent is called for one task with any timeout
InitInvoke ==
  /\ dryRun = FALSE
  /\ maxPrs = MaxPrsBound
  /\ concurrency = MaxConcurrency
  /\ keepWorktree = FALSE
  /\ reposDir = "/tmp/repos"
  /\ history = [r \in Repos |-> [k \in Keys |-> <<>>]]
  /\ gitFails = FALSE
  /\ remoteBranch = RemoteBranches
  /\ workspace = [k \in Keys |-> NoWorkspace]
  /\ queue = <<>>
  /\ mainPc = "agent"
  /\ RunIdle
  /\ \E t \in TimeoutChoicesMs :
       invoke = [pc |-> "start", timeoutMs |-> t, result |-> Pending,
                 normalizeRuns |-> 0, output |-> "none", error |-> "none",
                 previewLen |-> 0, firstTimerFired |-> FALSE]
  /\ cli = NoCall
  /\ parseCall = NoCall
  /\ contract = NoCall
  /\ stripCall = NoCall
  /\ tracker = NoCall
  /\ isolation = NoCall

\* what no step of the agent runtime changes
RunUnchanged ==
  UNCHANGED <<configVars, worldVars, runVars, schedVars, taskVars, everTripped, lockVars>>

\* invokeAgent up to `await runCli(command, invocationArgs, ..., timeoutMs, ...)`
InvokeAgentCall ==
  /\ invoke.pc = "start"
  /\ \E b \in ChildBehaviours : cli' = RunCli(invoke.timeoutMs, b)
  /\ invoke' = [invoke EXCEPT !.pc = "first"]
  /\ UNCHANGED <<parseCall, contract, stripCall, tracker, isolation>>
  /\ RunUnchanged

\* child.stdout.on('data', ...): stdout += text
ChildStdoutData ==
  /\ cli.pc = "spawned"
  /\ cli.child = "running"
  /\ ~cli.result.settled
  /\ cli.stdout = NoStdout
  /\ \E text \in Stdouts : cli' = [cli EXCEPT !.stdout = text]
  /\ UNCHANGED <<invoke, parseCall, contract, stripCall, tracker, isolation>>
  /\ RunUnchanged

\* the timer callback: timedOut = true; child.kill('SIGTERM'). When the signal
\* cannot be delivered, kill emits 'error' before it returns
TimeoutFires ==
  /\ cli.pc = "spawned"
  /\ cli.timer = "armed"
  /\ cli' = [cli EXCEPT !.timer = "fired",
                        !.timedOut = TRUE,
                        !.sigterm = cli.behaviour.killable,
                        !.result = IF cli.behaviour.killable THEN cli.result
                                   ELSE OnError([cli EXCEPT !.timedOut = TRUE])]
  /\ invoke' = [invoke EXCEPT !.firstTimerFired = @ \/ invoke.pc = "first"]
  /\ UNCHANGED <<parseCall, contract, stripCall, tracker, isolation>>
  /\ RunUnchanged

\* child.on('close', ...): clearTimeout(timeoutHandle); resolve({ stdout, timedOut })
ChildClose ==
  /\ cli.pc = "spawned"
  /\ cli.child = "running"
  /\ cli.behaviour.exitsOnOwn \/ (cli.sigterm /\ cli.behaviour.honoursTerm)
  /\ cli' = [cli EXCEPT !.child = "closed",
                        !.timer = IF @ = "armed" THEN "cleared" ELSE @,
                        !.result = Resolve(cli.result, cli.stdout, cli.timedOut)]
  /\ UNCHANGED <<invoke, parseCall, contract, stripCall, tracker, isolation>>
  /\ RunUnchanged

\* bash could not be spawned: 'error' is emitted before the child has run
SpawnError ==
  /\ cli.pc = "spawned"
  /\ cli.child = "running"
  /\ cli.timer = "armed"
  /\ cli.stdout = NoStdout
  /\ cli' = [cli EXCEPT !.child = "closed", !.timer = "cleared", !.result = OnError(cli)]
  /\ UNCHANGED <<invoke, parseCall, contract, stripCall, tracker, isolation>>
  /\ RunUnchanged

\* invokeAgent finishes: it returns { output, ... } or throws
Returned(inv, status) == [inv EXCEPT !.pc = "returned", !.output = status]
Threw(inv, error, previewLen) ==
  [inv EXCEPT !.pc = "threw", !.error = error, !.previewLen = previewLen]

\* the preview of the error: the raw output, cut after PreviewLimit characters
PreviewLength(stdout) == IF stdout.len > PreviewLimit THEN PreviewLimit ELSE stdout.len

\* Math.min(timeoutMs, MAX_NORMALIZE_DURATION_MS)
NormalizeTimeout(timeoutMs) == Min(timeoutMs, MAX_NORMALIZE_DURATION_MS)

\* the first runCli has settled: timedOut and empty output throw, a parsed output
\* is returned, and otherwise normalizeAgentOutputWithSameAgent starts its runCli
FirstRunSettled ==
  /\ invoke.pc = "first"
  /\ cli.result.settled
  /\ LET result == cli.result
     IN IF result.timedOut
        THEN /\ invoke' = Threw([invoke EXCEPT !.result = result], "timed out", 0)
             /\ UNCHANGED cli
        ELSE IF result.stdout.len = 0
        THEN /\ invoke' = Threw([invoke EXCEPT !.result = result], "no output", 0)
             /\ UNCHANGED cli
        ELSE IF ParsedStatus(result.stdout) # "null"
        THEN /\ invoke' = Returned([invoke EXCEPT !.result = result],
                                   ParsedStatus(result.stdout))
             /\ UNCHANGED cli
        ELSE /\ invoke' = [invoke EXCEPT !.pc = "normalize", !.result = result,
                                         !.normalizeRuns = @ + 1]
             /\ \E b \in ChildBehaviours :
                  cli' = RunCli(NormalizeTimeout(invoke.timeoutMs), b)
  /\ UNCHANGED <<parseCall, contract, stripCall, tracker, isolation>>
  /\ RunUnchanged

\* normalizeAgentOutputWithSameAgent after its runCli: null when it timed out or
\* printed nothing, else parseAgentOutputFromText(normalizeResult.stdout)
NormalizedOutput(normalizeResult) ==
  IF normalizeResult.timedOut \/ normalizeResult.stdout.len = 0 THEN "null"
  ELSE ParsedStatus(normalizeResult.stdout)

\* the runCli of the normalization has settled: invokeAgent returns its output, or
\* throws with the preview of the first run's stdout
NormalizeSettled ==
  /\ invoke.pc = "normalize"
  /\ cli.result.settled
  /\ invoke' = IF NormalizedOutput(cli.result) # "null"
               THEN Returned(invoke, NormalizedOutput(cli.result))
               ELSE Threw(invoke, "parse failed", PreviewLength(invoke.result.stdout))
  /\ UNCHANGED <<cli, parseCall, contract, stripCall, tracker, isolation>>
  /\ RunUnchanged

NextInvoke ==
  \/ InvokeAgentCall
  \/ ChildStdoutData
  \/ TimeoutFires
  \/ ChildClose
  \/ SpawnError
  \/ FirstRunSettled
  \/ NormalizeSettled

SpecInvoke == InitInvoke /\ [][NextInvoke]_vars

\* invokeAgent has returned or thrown
InvokeDone == invoke.pc \in {"returned", "threw"}

\* C15: once the timer of the first run has fired, invokeAgent does not return an
\* output and starts no normalization run; when it ends, it has thrown the
\* timed-out error
C15_TimeoutIsFailure ==
  invoke.firstTimerFired
  => /\ invoke.pc \in {"first", "threw"}
     /\ invoke.pc = "threw" => invoke.error = "timed out"
     /\ invoke.normalizeRuns = 0

\* C16: invokeAgent never waits for good: as long as it has neither returned nor
\* thrown, some step of the invocation can still happen
C16_InvokeTerminates == InvokeDone \/ ENABLED NextInvoke

\* C17: a normalization run is started only after a first run that ended before
\* its timer fired, with output that is not empty and from which nothing was
\* parsed; there is at most one, with the timeout min(timeoutMs, 5 minutes); when
\* it gives no output either, invokeAgent throws with the first run's output cut
\* to PreviewLimit characters
C17_ParseRetryProtocol ==
  /\ invoke.normalizeRuns > 0
       => /\ ~invoke.firstTimerFired
          /\ ~invoke.result.timedOut
          /\ invoke.result.stdout.len > 0
          /\ ParsedStatus(invoke.result.stdout) = "null"
  /\ invoke.normalizeRuns <= 1
  /\ invoke.pc = "normalize" => cli.timeoutMs = Min(invoke.timeoutMs, MAX_NORMALIZE_DURATION_MS)
  /\ (InvokeDone /\ invoke.normalizeRuns = 1)
       => IF cli.result.timedOut \/ cli.result.stdout.kind \in {"empty", "invalid"}
          THEN /\ invoke.pc = "threw"
               /\ invoke.error = "parse failed"
               /\ invoke.previewLen = Min(invoke.result.stdout.len, PreviewLimit)
          ELSE invoke.pc = "returned" /\ invoke.output = cli.result.stdout.kind

\* ---------------------------------------------------------------------------
\* Agent output parser (src/agent/output.ts)
\*
\* A text is a sequence of tokens: prose (no brace, fence or delimiter in it),
\* the ---RESULT--- delimiter, a ``` fence (with or without the json tag), and
\* JSON objects.  An object token has an identity (0: not schema-valid) and the
\* number of '{' characters it holds, its opening brace included: the string
\* fields of AgentOutputSchema (summary, filesChanged) and keys the schema
\* strips (verificationDetails) may hold any number.
\* ---------------------------------------------------------------------------

MaxTextLen == 6

MaxAttempts == 25

Prose == [kind |-> "prose", id |-> 0, braces |-> 0]

Delimiter == [kind |-> "delimiter", id |-> 0, braces |-> 0]

Fence == [kind |-> "fence", id |-> 0, braces |-> 0]

JsonObject(id, braces) == [kind |-> "object", id |-> id, braces |-> braces]

Tokens ==
  {Prose, Delimiter, Fence,
   JsonObject(0, 1), JsonObject(1, 1), JsonObject(2, MaxAttempts + 1)}

Texts == UNION {[1..n -> Tokens] : n \in 0..MaxTextLen}

Null == [kind |-> "null", id |-> 0]

Throws == [kind |-> "throws", id |-> 0]

\* AgentOutputSchema.parse(JSON.parse(s)): s must be exactly one object, and
\* the object must satisfy the schema
SchemaParse(s) ==
  IF Len(s) = 1 /\ s[1].kind = "object" /\ s[1].id > 0
  THEN [kind |-> "object", id |-> s[1].id]
  ELSE Throws

\* text.lastIndexOf(...) among the first `upTo` tokens, 0 for -1
LastIndexOf(text, kind, upTo) ==
  LET at == {i \in 1..upTo : text[i].kind = kind}
  IN IF at = {} THEN 0 ELSE CHOOSE i \in at : \A j \in at : j <= i

\* text.indexOf(...) from position `from`, 0 for -1
IndexOf(text, kind, from) ==
  LET at == {i \in from..Len(text) : text[i].kind = kind}
  IN IF at = {} THEN 0 ELSE CHOOSE i \in at : \A j \in at : i <= j

\* the matches of /```(?:json)?\s*([\s\S]*?)```/g from position `from`: each
\* fence opens a block closed by the next fence
RECURSIVE MatchAll(_, _)
MatchAll(text, from) ==
  LET open == IndexOf(text, "fence", from)
      close == IF open = 0 THEN 0 ELSE IndexOf(text, "fence", open + 1)
  IN IF close = 0 THEN <<>>
     ELSE <<SubSeq(text, open + 1, close - 1)>> \o MatchAll(text, close + 1)

\* parseDelimitedAgentOutput
ParseDelimitedAgentOutput(text) ==
  LET delimiterIndex == LastIndexOf(text, "delimiter", Len(text))
      jsonPart == SubSeq(text, delimiterIndex + 1, Len(text))
      jsonMatch == MatchAll(jsonPart, 1)
      jsonString == IF jsonMatch # <<>> THEN jsonMatch[1] ELSE jsonPart
  IN IF delimiterIndex = 0 THEN Throws ELSE SchemaParse(jsonString)

\* for (const match of codeBlocks.reverse()): the last block that parses
RECURSIVE LastValidBlock(_)
LastValidBlock(codeBlocks) ==
  IF codeBlocks = <<>> THEN Null
  ELSE LET candidate == codeBlocks[Len(codeBlocks)]
       IN IF candidate # <<>> /\ SchemaParse(candidate).kind = "object"
          THEN SchemaParse(candidate)
          ELSE LastValidBlock(SubSeq(codeBlocks, 1, Len(codeBlocks) - 1))

\* the while loop of the heuristic: `start` is the k-th '{' of token tok; the
\* slice from there to lastClose is JSON only when it is the whole last object
RECURSIVE ScanBack(_, _, _, _, _)
ScanBack(text, lastClose, tok, k, attempts) ==
  IF tok = 0 \/ attempts >= MaxAttempts THEN Null
  ELSE LET parsed == IF tok = lastClose /\ k = 1
                     THEN SchemaParse(<<text[tok]>>) ELSE Throws
           prev == LastIndexOf(text, "object", tok - 1)
       IN IF parsed.kind = "object" THEN parsed
          ELSE IF k > 1 THEN ScanBack(text, lastClose, tok, k - 1, attempts + 1)
          ELSE ScanBack(text, lastClose, prev,
                        IF prev = 0 THEN 0 ELSE text[prev].braces, attempts + 1)

\* tryParseAgentOutputFromText
TryParseAgentOutputFromText(text) ==
  LET fenced == LastValidBlock(MatchAll(text, 1))
      lastClose == LastIndexOf(text, "object", Len(text))
  IN IF fenced.kind = "object" THEN fenced
     ELSE IF lastClose = 0 THEN Null
     ELSE ScanBack(text, lastClose, lastClose, text[lastClose].braces, 0)

\* parseAgentOutputFromText
ParseAgentOutputFromText(text) ==
  IF LastIndexOf(text, "delimiter", Len(text)) # 0
     /\ ParseDelimitedAgentOutput(text).kind = "object"
  THEN ParseDelimitedAgentOutput(text)
  ELSE TryParseAgentOutputFromText(text)

\* the run and the other agent calls are idle
OnlyAgentCall ==
  /\ dryRun = FALSE
  /\ maxPrs = MaxPrsBound
  /\ concurrency = MaxConcurrency
  /\ keepWorktree = FALSE
  /\ reposDir = "/tmp/repos"
  /\ history = [r \in Repos |-> [k \in Keys |-> <<>>]]
  /\ gitFails = FALSE
  /\ remoteBranch = RemoteBranches
  /\ workspace = [k \in Keys |-> NoWorkspace]
  /\ queue = <<>>
  /\ mainPc = "agent"
  /\ RunIdle

\* both parsers are called with any text
InitParse ==
  /\ OnlyAgentCall
  /\ \E text \in Texts :
       parseCall = [pc |-> "called", text |-> text, result |-> Null, delimited |-> Null]
  /\ invoke = NoCall
  /\ cli = NoCall
  /\ contract = NoCall
  /\ stripCall = NoCall
  /\ tracker = NoCall
  /\ isolation = NoCall

\* parseAgentOutputFromText(text) and parseDelimitedAgentOutput(text) return
ParseAgentOutput ==
  /\ parseCall.pc = "called"
  /\ parseCall' = [parseCall EXCEPT !.pc = "returned",
                                    !.result = ParseAgentOutputFromText(parseCall.text),
                                    !.delimited = ParseDelimitedAgentOutput(parseCall.text)]
  /\ UNCHANGED <<invoke, cli, contract, stripCall, tracker, isolation>>
  /\ RunUnchanged

NextParse == ParseAgentOutput

SpecParse == InitParse /\ [][NextParse]_vars

\* the fenced blocks of the text that hold exactly one schema-valid object
ValidBlocks(text) ==
  {i \in 1..Len(MatchAll(text, 1)) : SchemaParse(MatchAll(text, 1)[i]).kind = "object"}

\* the object that ends at the last '}' of the text, Null when there is no '}'
\* or the object is not schema-valid
LastRawObject(text) ==
  LET lastClose == LastIndexOf(text, "object", Len(text))
  IN IF lastClose = 0 THEN Null ELSE
     IF SchemaParse(<<text[lastClose]>>).kind = "object"
     THEN SchemaParse(<<text[lastClose]>>) ELSE Null

\* the stages in the order the specification gives them, `raw` being the
\* outcome of the third stage
StagePriority(text, raw) ==
  LET blocks == MatchAll(text, 1)
      last == CHOOSE i \in ValidBlocks(text) : \A j \in ValidBlocks(text) : j <= i
  IN IF ParseDelimitedAgentOutput(text).kind = "object"
     THEN ParseDelimitedAgentOutput(text)
     ELSE IF ValidBlocks(text) # {} THEN SchemaParse(blocks[last])
     ELSE raw

\* parseDelimitedAgentOutput throws exactly when the delimiter is missing or
\* the payload after the last delimiter is invalid
DelimitedThrows ==
  parseCall.delimited = Throws
  <=> \/ \A i \in 1..Len(parseCall.text) : parseCall.text[i] # Delimiter
      \/ ParseDelimitedAgentOutput(parseCall.text).kind # "object"

\* C18 (as stated): the parser returns the delimited payload when it is
\* schema-valid, otherwise the last schema-valid fenced block, otherwise the
\* schema-valid raw object ending at the last '}', and null when none exists;
\* parseDelimitedAgentOutput throws when the delimiter is missing or its
\* payload is invalid.
C18_StagePriority ==
  parseCall.pc = "returned"
  => /\ parseCall.result = StagePriority(parseCall.text, LastRawObject(parseCall.text))
     /\ DelimitedThrows

\* the same stage order when the third stage finds the raw object that ends
\* at the last '}' only if that object holds at most MaxAttempts '{'
\* characters, and gives null otherwise
C18_StagePriorityBounded ==
  parseCall.pc = "returned"
  => LET lastClose == LastIndexOf(parseCall.text, "object", Len(parseCall.text))
         raw == IF lastClose # 0 /\ parseCall.text[lastClose].braces <= MaxAttempts
                THEN LastRawObject(parseCall.text) ELSE Null
     IN /\ parseCall.result = StagePriority(parseCall.text, raw)
        /\ DelimitedThrows

\* ---------------------------------------------------------------------------
\* Execution contract of an agent (src/agent/adapters.ts)
\*
\* A string is a sequence of parts, so that `name=value` is the three parts
\* name, "=", value and startsWith / slice are computed on it.
\* ---------------------------------------------------------------------------

MaxArgs == 4

SessionArg == <<"--session-id">>

ArgValues == {<<"abc-123">>, <<"other">>}

\* the strings an argument list is made of
ArgStrings ==
  {SessionArg, <<"-p">>} \cup ArgValues \cup {SessionArg \o <<"=">> \o v : v \in ArgValues}

ArgLists == UNION {[1..n -> ArgStrings] : n \in 0..MaxArgs}

\* current.startsWith(prefix)
StartsWith(current, prefix) ==
  Len(current) >= Len(prefix) /\ SubSeq(current, 1, Len(prefix)) = prefix

\* current.slice(n)
Slice(current, n) == SubSeq(current, n + 1, Len(current))

\* the for loop of stripArgPairOrInline from position `index` (1-based)
RECURSIVE StripFrom(_, _, _, _)
StripFrom(args, argName, argValue, index) ==
  IF index > Len(args) THEN <<>>
  ELSE LET current == args[index]
           nextIsValue == index + 1 <= Len(args) /\ args[index + 1] = argValue
       IN IF current = argName
          THEN StripFrom(args, argName, argValue, IF nextIsValue THEN index + 2 ELSE index + 1)
          ELSE IF /\ StartsWith(current, argName \o <<"=">>)
                  /\ Slice(current, Len(argName) + 1) = argValue
          THEN StripFrom(args, argName, argValue, index + 1)
          ELSE <<current>> \o StripFrom(args, argName, argValue, index + 1)

\* stripArgPairOrInline
StripArgPairOrInline(args, argName, argValue) == StripFrom(args, argName, argValue, 1)

\* stripArgPairOrInline is called with any list, the flag name and any value
InitStrip ==
  /\ OnlyAgentCall
  /\ \E args \in ArgLists, argValue \in ArgValues :
       stripCall = [pc |-> "called", args |-> args, original |-> args,
                    argName |-> SessionArg, argValue |-> argValue, result |-> <<>>]
  /\ invoke = NoCall
  /\ cli = NoCall
  /\ parseCall = NoCall
  /\ contract = NoCall
  /\ tracker = NoCall
  /\ isolation = NoCall

\* stripArgPairOrInline returns strippedArgs; args is only read
StripReturns ==
  /\ stripCall.pc = "called"
  /\ stripCall' = [stripCall EXCEPT
       !.pc = "returned",
       !.result = StripArgPairOrInline(stripCall.args, stripCall.argName, stripCall.argValue)]
  /\ UNCHANGED <<invoke, cli, parseCall, contract, tracker, isolation>>
  /\ RunUnchanged

NextStrip == StripReturns

SpecStrip == InitStrip /\ [][NextStrip]_vars

\* createGeneratedSessionId: a v5 UUID of the branch name and Date.now(), a
\* string no configured argument holds
GeneratedSessionId == <<"generated-uuid">>

NoSessionId == [configured |-> FALSE, arg |-> <<>>]

\* SessionIdConfig of a preset: { strategy: 'generated-v5-branch-timestamp', arg }
SessionIdConfigs == {NoSessionId, [configured |-> TRUE, arg |-> SessionArg]}

\* createExecutionContract is called for any resolved configuration: the
\* preset's and the user's arguments, with or without a session id strategy
InitContract ==
  /\ OnlyAgentCall
  /\ \E args \in ArgLists, sessionId \in SessionIdConfigs :
       contract = [pc |-> "called", args |-> args, sessionId |-> sessionId,
                   initialSessionId |-> <<>>, invocationArgs |-> <<>>, retryArgs |-> <<>>]
  /\ invoke = NoCall
  /\ cli = NoCall
  /\ parseCall = NoCall
  /\ stripCall = NoCall
  /\ tracker = NoCall
  /\ isolation = NoCall

\* createExecutionContract
CreateExecutionContract ==
  /\ contract.pc = "called"
  /\ LET generated == contract.sessionId.configured
         initialSessionId == IF generated THEN GeneratedSessionId ELSE <<>>
         invocationArgs == IF generated
                           THEN contract.args \o <<contract.sessionId.arg, initialSessionId>>
                           ELSE contract.args
         retryArgs == IF generated
                      THEN StripArgPairOrInline(invocationArgs, contract.sessionId.arg,
                                                initialSessionId)
                      ELSE invocationArgs
     IN contract' = [contract EXCEPT !.pc = "created",
                                     !.initialSessionId = initialSessionId,
                                     !.invocationArgs = invocationArgs,
                                     !.retryArgs = retryArgs]
  /\ UNCHANGED <<invoke, cli, parseCall, stripCall, tracker, isolation>>
  /\ RunUnchanged

NextContract == CreateExecutionContract

SpecContract == InitContract /\ [][NextContract]_vars

\* the session pair or its inline form occurs in the list
HoldsSession(args, argName, argValue) ==
  \/ \E i \in 1..(Len(args) - 1) : args[i] = argName /\ args[i + 1] = argValue
  \/ \E i \in 1..Len(args) : args[i] = argName \o <<"=">> \o argValue

\* the retry arguments never hold the generated session
RetryDropsSession ==
  (contract.pc = "created" /\ contract.sessionId.configured)
  => ~HoldsSession(contract.retryArgs, contract.sessionId.arg, contract.initialSessionId)

\* C19: when a session id was generated and appended for the first
\* invocation, retryArgs holds neither the pair nor the inline form of it, and
\* every other argument of invocationArgs is in retryArgs, in the same order.
C19_RetryWithoutSession ==
  (contract.pc = "created" /\ contract.sessionId.configured)
  => /\ ~HoldsSession(contract.retryArgs, contract.sessionId.arg, contract.initialSessionId)
     /\ contract.retryArgs = SubSeq(contract.invocationArgs, 1, Len(contract.invocationArgs) - 2)

\* the list without each exact pair `name value` and each exact `name=value`,
\* read from the left
RECURSIVE RemoveExact(_, _, _)
RemoveExact(args, argName, argValue) ==
  IF args = <<>> THEN <<>>
  ELSE IF Len(args) >= 2 /\ args[1] = argName /\ args[2] = argValue
  THEN RemoveExact(SubSeq(args, 3, Len(args)), argName, argValue)
  ELSE IF args[1] = argName \o <<"=">> \o argValue
  THEN RemoveExact(Tail(args), argName, argValue)
  ELSE <<args[1]>> \o RemoveExact(Tail(args), argName, argValue)

\* C20: stripArgPairOrInline leaves its input as it was and returns the input
\* without each exact pair and each exact inline form; the flag with another
\* value, in either form, and every unrelated argument stay, in order.
C20_StripsOnlyExact ==
  stripCall.pc = "returned"
  => /\ stripCall.args = stripCall.original
     /\ stripCall.result = RemoveExact(stripCall.args, stripCall.argName, stripCall.argValue)

\* the same for lists in which the bare flag name is always followed by the
\* value to strip
C20_StripsWhenPaired ==
  (/\ stripCall.pc = "returned"
   /\ \A i \in 1..Len(stripCall.args) :
        stripCall.args[i] = stripCall.argName
        => i < Len(stripCall.args) /\ stripCall.args[i + 1] = stripCall.argValue)
  => /\ stripCall.args = stripCall.original
     /\ stripCall.result = RemoveExact(stripCall.args, stripCall.argName, stripCall.argValue)

\* ---------------------------------------------------------------------------
\* Child processes and shutdown (src/process-tracker.ts, runCli)
\* ---------------------------------------------------------------------------

MaxChildren == 3

MaxSignals == 2

ChildIds == 1..MaxChildren

\* the tasks that run agents side by side
Owners == 1..MaxConcurrency

NotSpawned == [state |-> "none", owner |-> 0]

\* const exitCodes = { SIGINT: 130, SIGTERM: 143 }
ExitCodes(signal) == IF signal = "SIGINT" THEN 130 ELSE 143

\* the CLI has called setupSignalHandlers and no agent runs yet
InitTracker ==
  /\ OnlyAgentCall
  /\ tracker = [pc |-> "running", children |-> [c \in ChildIds |-> NotSpawned],
                childProcesses |-> {}, signalled |-> {}, timers |-> <<>>, exitCode |-> 0]
  /\ invoke = NoCall
  /\ cli = NoCall
  /\ parseCall = NoCall
  /\ contract = NoCall
  /\ stripCall = NoCall
  /\ isolation = NoCall

RegisterChildProcess_NotAdded(childProcesses, child) == childProcesses

\* registerChildProcess: childProcesses.add(child)
RegisterChildProcess(childProcesses, child) == childProcesses \cup {child}

\* runCli of task t: const child = spawn('bash', ...); registerChildProcess(child)
SpawnChild(t, c) ==
  /\ tracker.pc # "exited"
  /\ tracker.children[c].state = "none"
  /\ \A d \in ChildIds : d < c => tracker.children[d].state # "none"
  /\ tracker' = [tracker EXCEPT
       !.children[c] = [state |-> "running", owner |-> t],
       !.childProcesses = RegisterChildProcess(tracker.childProcesses, c)]
  /\ UNCHANGED <<invoke, cli, parseCall, contract, stripCall, isolation>>
  /\ RunUnchanged

\* the child exits, by itself or after a signal:
\* child.on('exit', () => childProcesses.delete(child))
ChildExit(c) ==
  /\ tracker.pc # "exited"
  /\ tracker.children[c].state = "running"
  /\ tracker' = [tracker EXCEPT
       !.children[c].state = "exited",
       !.childProcesses = tracker.childProcesses \ {c}]
  /\ UNCHANGED <<invoke, cli, parseCall, contract, stripCall, isolation>>
  /\ RunUnchanged

\* killAllChildren: child.kill('SIGTERM') for every child of the set
KillAllChildren(t) == t.signalled \cup t.childProcesses

\* process.on(signal, () => cleanup(signal)): killAllChildren(), then
\* setTimeout(() => process.exit(exitCodes[signal] ?? 128), 1000)
ReceiveSignal(signal) ==
  /\ tracker.pc # "exited"
  /\ Len(tracker.timers) < MaxSignals
  /\ tracker' = [tracker EXCEPT
       !.pc = "shutdown",
       !.signalled = KillAllChildren(tracker),
       !.timers = Append(tracker.timers, ExitCodes(signal))]
  /\ UNCHANGED <<invoke, cli, parseCall, contract, stripCall, isolation>>
  /\ RunUnchanged

\* the timer of the first signal is due: process.exit
GraceElapsed ==
  /\ tracker.pc = "shutdown"
  /\ tracker.timers # <<>>
  /\ tracker' = [tracker EXCEPT !.pc = "exited", !.exitCode = Head(tracker.timers)]
  /\ UNCHANGED <<invoke, cli, parseCall, contract, stripCall, isolation>>
  /\ RunUnchanged

NextTracker ==
  \/ \E t \in Owners, c \in ChildIds : SpawnChild(t, c)
  \/ \E c \in ChildIds : ChildExit(c)
  \/ \E signal \in {"SIGINT", "SIGTERM"} : ReceiveSignal(signal)
  \/ GraceElapsed

\* a timer that was set fires
SpecTracker == InitTracker /\ [][NextTracker]_vars /\ WF_vars(GraceElapsed)

\* the step is the handler of a signal
SignalReceived == Len(tracker'.timers) > Len(tracker.timers)

\* C21: the tracked set holds every child that was spawned and has not exited;
\* the handler of SIGINT or SIGTERM sends SIGTERM to every tracked child, whatever
\* task owns it; and the process then exits, whether or not the children have.
C21_InterruptHandling ==
  /\ [](\A c \in ChildIds :
          tracker.children[c].state = "running" => c \in tracker.childProcesses)
  /\ [][SignalReceived => tracker.childProcesses \subseteq tracker'.signalled]_vars
  /\ (tracker.pc = "shutdown" ~> tracker.pc = "exited")

\* C21 witness: the process has exited after a signal that reached children of two
\* tasks, one of which is still running
C21_Witness_ExitedWithChild ==
  /\ tracker.pc = "exited"
  /\ \E c, d \in tracker.signalled :
       /\ tracker.children[c].owner # tracker.children[d].owner
       /\ tracker.children[c].state = "running"

\* ------------------------------------------------------- error scope claims
\* C22: a missing prerequisite ends the run before any task is admitted: no task
\* of a run that was admitted, and so holds a reservation, comes back failed from
\* its prerequisite check.
C22_PrerequisitesRunScoped ==
  [][\A f \in Keys :
       (mainPc \in {"wait", "drain"} /\ tpc[f] = "prereq")
         => ~(tpc'[f] = "finally" /\ outcome'[f] = "failed")]_vars

\* removeFlag has returned for flag f and processOneFlag has seen the result
Completes(f) == tpc[f] = "finally" /\ tpc'[f] = "logging"

\* the result of flag f is pushed and its task leaves the pool
Recorded(f) == tpc[f] = "logging" /\ tpc'[f] = "done"

C25_CounterSemantics ==
  /\ [][\A f \in Keys :
          Completes(f) => consecutiveFailures' =
                            (IF outcome[f] = "failed" THEN consecutiveFailures + 1 ELSE 0)]_vars
  /\ [][consecutiveFailures' # consecutiveFailures => \E f \in Keys : Completes(f)]_vars
  /\ [](mainPc = "returned" => (shouldStop <=> everTripped))

\* the same with one task at a time, where three failures in a row leave every
\* later flag in the queue
C25_SequentialCounter ==
  concurrency = 1 =>
    /\ mainPc = "returned" => (shouldStop <=> everTripped)
    /\ shouldStop => consecutiveFailures = MAX_CONSECUTIVE_FAILURES
    /\ (everTripped /\ Len(results) = MAX_CONSECUTIVE_FAILURES /\ mainPc = "returned")
         => Len(queue) = NumFlags - MAX_CONSECUTIVE_FAILURES

\* ------------------------------------------------------- a run without budget
\* processFlags is running or has returned
InProcessFlags == mainPc \in {"entry", "fill", "wait", "drain"}

\* C24: with maxPrs = 0 processFlags returns at once with the queue as it got it
\* (every flag with code references remains), admits no task, creates no
\* workspace and invokes no agent, and the results still hold the flags that were
\* skipped before: those without code references are reported as complete.
C24_NoBudgetAdmitsNothing ==
  /\ [](maxPrs = 0 =>
          /\ inFlight = {}
          /\ \A f \in Keys : tpc[f] \in {"queued", "skipped"} /\ ~scaffoldResult[f]
          /\ \A f \in Keys : tpc[f] = "skipped"
               => \E i \in 1..Len(results) : results[i].key = f)
  /\ [][(maxPrs = 0 /\ InProcessFlags)
          => /\ mainPc = "entry" /\ mainPc' = "returned"
             /\ workspace' = workspace
             /\ queue' = queue
             /\ results' = results]_vars

\* C24 witness: a run with maxPrs = 0 has returned from processFlags with flags
\* remaining and a flag without code references reported as complete
C24_Witness_ReportedWithoutBudget ==
  /\ maxPrs = 0
  /\ mainPc = "returned"
  /\ queue # <<>>
  /\ \A i \in 1..Len(queue) : queue[i].reposWithCode # {}
  /\ \E i \in 1..Len(results) : results[i].status = "complete"

\* ------------------------------------------------------- legacy workspaces
\* the workspace has no metadata file that bye-bye-flag wrote
Legacy(ws) == ws.exists /\ ReadWorkspaceMetadata(ws) = "none"

\* C26: for a workspace without valid metadata no step of cleanupStaleWorktrees
\* deletes anything unless some sub-directory is a registered check-out of the
\* current clones, and then it removes check-outs only: the other entries of the
\* directory, and with them the directory, stay.
C26_LegacyOnlyVerified ==
  [][\A k \in Keys :
       (mainPc = "cleanup" /\ Legacy(workspace[k]))
         => /\ workspace[k].registered = {} => workspace'[k] = workspace[k]
            /\ workspace'[k].registered \subseteq workspace[k].registered
            /\ (workspace[k].others \/ workspace[k].meta # NoFile)
                 => /\ workspace'[k].exists
                    /\ workspace'[k].others = workspace[k].others
                    /\ workspace'[k].meta = workspace[k].meta]_vars

\* the same without the last part: an unregistered legacy workspace is left as it
\* is, and no check-out is added
C26_LegacyUnregisteredKept ==
  [][\A k \in Keys :
       (mainPc = "cleanup" /\ Legacy(workspace[k]))
         => /\ workspace[k].registered = {} => workspace'[k] = workspace[k]
            /\ workspace'[k].registered \subseteq workspace[k].registered]_vars

\* ------------------------------------------------------------ phase ordering
\* the code-reference check has given flag k its repositories, or dropped it;
\* a flag that was admitted has left the queue
CodeChecked(k) ==
  \/ tpc[k] # "queued"
  \/ \E i \in 1..Len(queue) : queue[i].key = k /\ queue[i].reposWithCode # {}

\* C27: when processFlags admits a task in a run, the review records of every
\* repository have been fetched and every flag of the run has been through the
\* code-reference check; no task is under way while a fetch is pending or a flag
\* is unchecked.
C27_PhasesBeforeAdmission ==
  /\ [][(Admission /\ mainPc # "standalone")
          => /\ \A r \in Repos : prsByRepo[r].status = "ok"
             /\ \A k \in RunKeys : CodeChecked(k)]_vars
  /\ []((mainPc \in {"fetchPRs", "cleanup", "filter", "codeCheck"})
          => /\ inFlight = {}
             /\ \A f \in Keys : tpc[f] \in {"queued", "skipped"})

\* C27 witness: the first task of a run is admitted after both batches, which
\* skipped one flag for its review record and reported another without code
C27_Witness_FirstAdmission ==
  /\ mainPc = "fill"
  /\ Cardinality(inFlight) = 1
  /\ \E f \in Keys : tpc[f] = "prereq"
  /\ \A r \in Repos : prsByRepo[r].status = "ok"
  /\ \E i, j \in 1..Len(results) : results[i].status = "skipped" /\ results[j].status = "complete"

\* ------------------------------------------------------------ queue skipping
\* the position of flag f in the queue, 0 if it is not queued
PositionOf(q, f) ==
  IF \E i \in 1..Len(q) : q[i].key = f
  THEN CHOOSE i \in 1..Len(q) : q[i].key = f
  ELSE 0

\* C28: the task a step admits is the earliest one in the queue whose reservation
\* fits the remaining budget: it fits, every task ahead of it does not, and the
\* queue afterwards is the queue before without it, in the same order; a step
\* admits a task only with a free slot, the breaker untripped and budget left.
C28_EarliestFittingAdmitted ==
  [][\A f \in Keys :
       (tpc[f] = "queued" /\ tpc'[f] = "prereq")
         => LET i == PositionOf(queue, f)
            IN /\ i # 0
               /\ ~shouldStop
               /\ Cardinality(inFlight) < concurrency
               /\ remainingPrBudget > 0
               /\ Reservation(queue[i]) <= remainingPrBudget
               /\ \A j \in 1..(i - 1) : Reservation(queue[j]) > remainingPrBudget
               /\ queue' = RemoveAt(queue, i)
               /\ remainingPrBudget' = remainingPrBudget - Reservation(queue[i])]_vars

\* C28 witness: a task was admitted past an earlier flag that needs more than the
\* budget had left, and that flag is still at the head of the queue
C28_Witness_HeadSkipped ==
  /\ mainPc = "fill"
  /\ queue # <<>>
  /\ \E f \in Keys :
       /\ tpc[f] = "prereq"
       /\ Head(queue).key < f
       /\ Reservation(Head(queue)) > remainingPrBudget + reserved[f]

\* ------------------------------------------------------------ dry-run budget
\* the reservations of the tasks in flight
RECURSIVE SumReserved(_)
SumReserved(fs) ==
  IF fs = {} THEN 0
  ELSE LET f == CHOOSE g \in fs : TRUE IN reserved[f] + SumReserved(fs \ {f})

\* C29: in dry-run no step raises remainingPrBudget; every admission lowers it by
\* the reservation of the task, which is at least 1, and it never falls below 0:
\* the reservations of all admitted tasks add up to maxPrs - remainingPrBudget,
\* which is at most maxPrs, whatever the outcomes.
C29_DryRunNeverRefunds ==
  /\ [][dryRun => remainingPrBudget' <= remainingPrBudget]_vars
  /\ [][\A f \in Keys :
          (dryRun /\ tpc[f] = "queued" /\ tpc'[f] = "prereq")
            => /\ reserved'[f] >= 1
               /\ remainingPrBudget' = remainingPrBudget - reserved'[f]]_vars
  /\ [](dryRun => /\ remainingPrBudget >= 0
                  /\ remainingPrBudget <= maxPrs
                  /\ SumReserved(inFlight) <= maxPrs - remainingPrBudget)

\* C29 witness: in dry-run every admitted task has completed, one of them failed
\* or was refused, and the budget it reserved has not come back
C29_Witness_SpentOnFailure ==
  /\ dryRun
  /\ mainPc = "returned"
  /\ inFlight = {}
  /\ \E i \in 1..Len(results) : results[i].status \in {"failed", "skipped"}
  /\ remainingPrBudget = 0
  /\ queue # <<>>

\* ------------------------------------------------- the partial-success policy
\* the attempt of f has committed: the agent reported success outside dry-run and
\* removeFlag holds the per-repository results
Committed(f) == repoResults[f] # Undefined

SomeFailed(f) == \E r \in Repos : repoResults[f][r] = "failed"
SomePr(f) == \E r \in Repos : repoResults[f][r] = "success"
NoneChanged(f) == \A r \in Repos : repoResults[f][r] = "no-changes"

\* C30: after the agent reported success outside dry-run, the outcome of the task
\* is failed if and only if at least one repository failed and none produced a
\* PR; with at least one PR it is success even when other repositories failed;
\* with no failure and no change it is success with no PR
C30_PartialSuccessPolicy ==
  \A f \in Keys :
    Committed(f)
      => /\ ~dryRun
         /\ tpc[f] = "finally"
         /\ outcome[f] \in {"failed", "success"}
         /\ outcome[f] = "failed" <=> (SomeFailed(f) /\ ~SomePr(f))
         /\ SomePr(f) => (outcome[f] = "success" /\ prRepos[f] # {})
         /\ (~SomeFailed(f) /\ NoneChanged(f))
              => (outcome[f] = "success" /\ prRepos[f] = {})

\* an attempt has ended as success with a PR in one repository and a failure in
\* another
C30_Witness_PartialSuccess ==
  \E f \in Keys :
    /\ Committed(f)
    /\ SomeFailed(f)
    /\ SomePr(f)
    /\ outcome[f] = "success"

\* ------------------------------------------- metadata before check-out work
\* setupMultiRepoWorktrees of caller c is between its writeWorkspaceMetadata and
\* its return
SetupRunning(c) == tpc[c] \in {"validate", "allSettled"}

\* the metadata file of the workspace of c is there and names this tool
HasMetadata(ws) == ReadWorkspaceMetadata(ws) # "none"

\* C31: the metadata file is written before any git operation of
\* setupMultiRepoWorktrees: it is there while the call runs and when it has
\* returned, every step that registers a check-out of a workspace finds it there
\* and leaves it there, and every workspace directory that holds a check-out
\* holds the metadata file
C31_MetadataBeforeCheckout ==
  /\ [](\A c \in Callers :
          (SetupRunning(c) \/ tpc[c] = "setupDone") => HasMetadata(workspace[c]))
  /\ [][\A c \in Callers :
          (workspace'[c].registered \ workspace[c].registered # {})
            => (HasMetadata(workspace[c]) /\ HasMetadata(workspace'[c]))]_vars
  /\ [](\A c \in Callers :
          (workspace[c].exists /\ workspace[c].registered # {})
            => HasMetadata(workspace[c]))

\* the call of caller 1, whose flag had no workspace, has registered its first
\* check-out while another repository still waits for its lock
C31_Witness_FirstCheckout ==
  /\ SetupRunning(1)
  /\ \E r \in Repos : repoPc[1][r] = "runSetup" /\ r \in workspace[1].registered
  /\ \E r \in Repos : repoPc[1][r] = "awaitPrevious"
  /\ HasMetadata(workspace[1])

\* ---------------------------------------------------------------- lock scope
\* caller c has taken its place in the chain of repository r and has not called
\* release(): every later caller of r waits
HoldsLock(c, r) == repoPc[c][r] \notin {"idle", "awaitPrevious"} /\ ~released[c][r]

\* the positions of a repoSetupPromise after the action of withRepoOperationLock
AfterLock(c, r) == repoPc[c][r] \in {"runSetup", "fulfilled", "setupFailed", "addFailed"}

\* C32: a repository's lock is held only during the git sequence: it has been
\* released when the setup commands of that repository start and when the git
\* sequence has failed, a caller whose setupMultiRepoWorktrees has returned or
\* thrown holds no lock, and a caller that runs setup commands keeps no other
\* caller waiting for that repository
C32_LockScope ==
  \A c \in Callers :
    /\ \A r \in Repos :
         /\ HoldsLock(c, r) <=> InLock(c, r)
         /\ AfterLock(c, r) => /\ released[c][r]
                               /\ repoOperationLocks[r] # c
         /\ repoPc[c][r] = "runSetup" =>
              \A d \in Callers \ {c} :
                (repoPc[d][r] = "awaitPrevious" /\ previous[d][r] = c)
                  => PreviousSettled(d, r)
    /\ tpc[c] \in {"setupDone", "setupThrew"} => \A r \in Repos : ~HoldsLock(c, r)

\* the setup commands of both callers run on the same repository at the same time
C32_Witness_SetupOverlaps ==
  \E r \in Repos : \A c \in Callers : repoPc[c][r] = "runSetup"

\* ------------------------------------------------------------ FIFO lock order
\* a continuation that can run does run (the event loop), and the git commands of
\* an action that was started settle
LockProgress ==
  \E c \in Callers : \E r \in Repos :
    LockAcquired(c, r) \/ RemoveStaleWorktree(c, r) \/ AddWorktree(c, r)

\* the callers up to the end of their locked sequences: what follows a release
\* (setup commands, Promise.allSettled) touches no lock
NextLock ==
  \/ \E c \in Callers : SetupStart(c)
  \/ \E c \in Callers : SetupValidate(c)
  \/ LockProgress

SpecLock == InitScaffold /\ [][NextLock]_vars /\ WF_vars(LockProgress)

\* caller c called withRepoOperationLock for repository r before caller d did
CalledBefore(c, d, r) == previous[d][r] = c /\ repoPc[d][r] # "idle"

\* C33: callers of withRepoOperationLock for the same repository run their
\* actions one at a time and in the order in which they called it (the action of
\* the later caller starts only when that of the earlier one has settled and the
\* lock was released), and every caller that waits eventually runs its action
C33_FifoLockOrder ==
  /\ [](\A r \in Repos : \A c, d \in Callers :
          /\ (c # d) => ~(InLock(c, r) /\ InLock(d, r))
          /\ (CalledBefore(c, d, r) /\ repoPc[d][r] # "awaitPrevious")
               => (released[c][r] /\ ~InLock(c, r)))
  /\ \A c \in Callers : \A r \in Repos :
       (repoPc[c][r] = "awaitPrevious") ~> InLock(c, r)

\* the caller that called second runs its action on a repository after the first
\* caller's action on it has settled
C33_Witness_SecondAfterFirst ==
  \E r \in Repos : \E c, d \in Callers :
    /\ CalledBefore(c, d, r)
    /\ InLock(d, r)
    /\ released[c][r]

\* -------------------------------------------------------------- budget bounds
\* the entry of flag f in the queue
QueuedFlag(f) == queue[CHOOSE i \in 1..Len(queue) : queue[i].key = f]

\* C34: in every state of processFlags 0 <= remainingPrBudget <= maxPrs, and the
\* step that admits a task reserves max(1, |reposWithCode|) for it, which is at
\* most the budget that remained before the step
C34_BudgetBounds ==
  /\ [](remainingPrBudget >= 0 /\ remainingPrBudget <= maxPrs)
  /\ [][\A f \in Keys :
          (tpc[f] = "queued" /\ tpc'[f] = "prereq")
            => /\ \E i \in 1..Len(queue) : queue[i].key = f
               /\ reserved'[f] = Max(1, Cardinality(QueuedFlag(f).reposWithCode))
               /\ reserved'[f] <= remainingPrBudget
               /\ remainingPrBudget' = remainingPrBudget - reserved'[f]]_vars

\* a task that reserved more than one unit took all that remained of the budget
\* while other flags stay queued
C34_Witness_TookAllBudget ==
  \E f \in inFlight :
    /\ tpc[f] = "prereq"
    /\ reserved[f] > 1
    /\ remainingPrBudget = 0
    /\ queue # <<>>

\* ------------------------------------------------------ workspace isolation
\* flag keys as strings: sequences of characters, at least one (z.string().min(1))
MaxKeyLen == 3
KeyChars == {"a", "/", "-"}
KeyStrings == UNION {[1..n -> KeyChars] : n \in 1..MaxKeyLen}

\* two candidates that both have code references, run with concurrency 2
Tasks == {1, 2}

\* CONFIG.branchPrefix = 'remove-flag/' ("remove-flag" stands for its letters)
BranchPrefix == <<"remove-flag", "/">>

\* const branchName = `${CONFIG.branchPrefix}${flagKey}`
BranchName(flagKey) == BranchPrefix \o flagKey

\* branchName.replace(/\//g, '-'): the directory name under worktreeBasePath
WorkspaceDirName(branchName) ==
  [i \in 1..Len(branchName) |-> IF branchName[i] = "/" THEN "-" ELSE branchName[i]]

\* name.replace(pattern, ''): the first occurrence of the pattern is removed
ReplaceFirst(name, pattern) ==
  LET at == {i \in 1..(Len(name) - Len(pattern) + 1) :
               SubSeq(name, i, i + Len(pattern) - 1) = pattern}
  IN IF at = {} THEN name
     ELSE LET i == CHOOSE j \in at : \A k \in at : j <= k
          IN SubSeq(name, 1, i - 1) \o SubSeq(name, i + Len(pattern), Len(name))

\* cleanupStaleWorktrees: const flagKey = dir.name.replace('remove-flag-', '')
FlagKeyOfDirName(name) == ReplaceFirst(name, <<"remove-flag", "-">>)

\* no workspace path yet
NoPath == <<>>

\* runWithInput has accepted a list of two flags; FlagToRemoveSchema checks each
\* key for min(1) and nothing else
InitIsolation ==
  /\ OnlyAgentCall
  /\ \E flags \in [Tasks -> KeyStrings] :
       isolation = [flags |-> flags,
                    pc |-> [t \in Tasks |-> "queued"],
                    workspacePath |-> [t \in Tasks |-> NoPath]]
  /\ invoke = NoCall
  /\ cli = NoCall
  /\ parseCall = NoCall
  /\ contract = NoCall
  /\ stripCall = NoCall
  /\ tracker = NoCall

\* tryStartOne admits the next flag of the queue and its removeFlag reaches
\* setupMultiRepoWorktrees: workspacePath is computed and the directory made
StartTask(t) ==
  /\ isolation.pc[t] = "queued"
  /\ \A u \in Tasks : u < t => isolation.pc[u] # "queued"
  /\ isolation' = [isolation EXCEPT
       !.pc[t] = "running",
       !.workspacePath[t] = WorkspaceDirName(BranchName(isolation.flags[t]))]
  /\ UNCHANGED <<invoke, cli, parseCall, contract, stripCall, tracker>>
  /\ RunUnchanged

\* the attempt ends and keeps its workspace (a PR was opened)
FinishTask(t) ==
  /\ isolation.pc[t] = "running"
  /\ isolation' = [isolation EXCEPT !.pc[t] = "done"]
  /\ UNCHANGED <<invoke, cli, parseCall, contract, stripCall, tracker>>
  /\ RunUnchanged

NextIsolation ==
  \/ \E t \in Tasks : StartTask(t)
  \/ \E t \in Tasks : FinishTask(t)

SpecIsolation == InitIsolation /\ [][NextIsolation]_vars

\* C35: no two tasks that run at the same time use the same workspace directory,
\* and the flag key reclamation reads off the directory of a task is the key of
\* that task
C35_WorkspaceIsolation ==
  /\ \A t, u \in Tasks :
       (t # u /\ isolation.pc[t] = "running" /\ isolation.pc[u] = "running")
         => isolation.workspacePath[t] # isolation.workspacePath[u]
  /\ \A t \in Tasks :
       isolation.pc[t] # "queued"
         => FlagKeyOfDirName(isolation.workspacePath[t]) = isolation.flags[t]

\* the keys differ and contain no '/'
PlainDistinctKeys ==
  /\ isolation.flags[1] # isolation.flags[2]
  /\ \A t \in Tasks : \A i \in 1..Len(isolation.flags[t]) : isolation.flags[t][i] # "/"

\* the part of C35 that holds: for distinct keys without '/' the directories of
\* running tasks differ and the key read off a directory is the task's key
C35_IsolationOfPlainKeys == PlainDistinctKeys => C35_WorkspaceIsolation

\* ------------------------------------------------ serialized git mutations
\* the step changes whether caller c has a check-out registered in repository r
ChangesCheckout(c, r) ==
  (r \in workspace[c].registered) # (r \in workspace'[c].registered)

\* every step that registers or removes a check-out in a repository is taken by
\* a caller that holds the lock of that repository
C36_MutationsUnderLock ==
  [][\A c \in Callers : \A r \in Repos : ChangesCheckout(c, r) => InLock(c, r)]_vars

\* no step that registers or removes a check-out in a repository is taken while
\* another caller is inside its locked sequence on that repository
C36_MutationsNeverOverlap ==
  [][\A c \in Callers : \A r \in Repos :
       ChangesCheckout(c, r) => \A d \in Callers \ {c} : ~InLock(d, r)]_vars

\* C36: every operation that changes the registered check-outs of a repository
\* during the execution phase runs while holding that repository's lock, so none
\* overlaps the locked sequence of another task on the same repository
C36_GitMutationsSerialized == C36_MutationsUnderLock /\ C36_MutationsNeverOverlap

\* ------------------------------------------------ the scheduler and signals
\* processFlags is entered in a CLI process that has called setupSignalHandlers
InitInterrupt ==
  /\ dryRun \in BOOLEAN
  /\ maxPrs \in 1..MaxPrsBound
  /\ concurrency \in 1..MaxConcurrency
  /\ keepWorktree = FALSE
  /\ reposDir = "/tmp/repos"
  /\ history = [r \in Repos |-> [k \in Keys |-> <<>>]]
  /\ gitFails = FALSE
  /\ remoteBranch = RemoteBranches
  /\ workspace = [k \in Keys |-> NoWorkspace]
  /\ \E rwc \in [Flags -> CodeRepoSets] :
       queue = [i \in 1..NumFlags |-> [key |-> i, reposWithCode |-> rwc[i]]]
  /\ mainPc = "entry"
  /\ RunIdle
  /\ tracker = [pc |-> "running", children |-> [c \in ChildIds |-> NotSpawned],
                childProcesses |-> {}, signalled |-> {}, timers |-> <<>>, exitCode |-> 0]
  /\ invoke = NoCall
  /\ cli = NoCall
  /\ parseCall = NoCall
  /\ contract = NoCall
  /\ stripCall = NoCall
  /\ isolation = NoCall

\* the handler of a signal calls killAllChildren and sets the exit timer; it
\* writes no variable of processFlags, whose steps go on until process.exit.
\* Handlers and timers run while processFlags awaits its tasks, never inside
\* the synchronous loop that fills the pool
NextInterrupt ==
  \/ tracker.pc # "exited" /\ NextSched
  \/ /\ mainPc \in {"wait", "drain"}
     /\ \E signal \in {"SIGINT", "SIGTERM"} : ReceiveSignal(signal)
  \/ /\ mainPc \in {"wait", "drain"}
     /\ GraceElapsed

SpecInterrupt == InitInterrupt /\ [][NextInterrupt]_vars

\* the step creates the workspace directory of a flag
CreatesWorkspace == \E f \in Keys : ~workspace[f].exists /\ workspace'[f].exists

\* C37: once SIGINT or SIGTERM has been received and until the process exits,
\* no step admits a task and no step creates a workspace
C37_NoNewWorkAfterInterrupt ==
  [][tracker.pc = "shutdown" => (~Admission /\ ~CreatesWorkspace)]_vars

\* the process exits with the code of the first signal, and once it has exited
\* nothing changes
C37_ExitEndsAllWork ==
  [][tracker.pc = "exited" => UNCHANGED <<schedVars, taskVars, worldVars>>]_vars

\* ------------------------------------------- release on failure, no deadlock
\* some caller waits for the lock of repository r
SomeWaiter(r) == \E c \in Callers : repoPc[c][r] = "awaitPrevious"

\* C38: when the action run under withRepoOperationLock has thrown, the lock is
\* released and the map no longer holds the tail of that call; whenever a caller
\* waits for a repository on which no action runs, some waiter can go on; and
\* no caller waits forever: again and again no caller waits for any repository
C38_ReleasedOnFailure ==
  /\ [](\A c \in Callers : \A r \in Repos :
          repoPc[c][r] = "addFailed"
            => (released[c][r] /\ repoOperationLocks[r] # c))
  /\ [](\A r \in Repos :
          (SomeWaiter(r) /\ \A d \in Callers : ~InLock(d, r))
            => \E c \in Callers :
                 repoPc[c][r] = "awaitPrevious" /\ PreviousSettled(c, r))
  /\ []<>(\A r \in Repos : ~SomeWaiter(r))

\* the action of the first caller threw and the caller that waited behind it is
\* inside its own action on the same repository
C38_Witness_NextAfterThrow ==
  \E r \in Repos : \E c, d \in Callers :
    /\ CalledBefore(c, d, r)
    /\ repoPc[c][r] = "addFailed"
    /\ InLock(d, r)

\* -------------------------------------------------------- complete accounting
\* how often key k occurs among the results and among the remaining flags
TimesReported(k) == Cardinality({i \in 1..Len(results) : results[i].key = k})
TimesRemaining(k) == Cardinality({i \in 1..Len(queue) : queue[i].key = k})

\* every candidate flag is one result or one remaining flag, never both and
\* never twice; no task is still running, and every admitted task has one result
Accounted ==
  /\ Len(results) + Len(queue) = Cardinality(RunKeys)
  /\ inFlight = {}
  /\ \A k \in RunKeys :
       /\ TimesReported(k) + TimesRemaining(k) = 1
       /\ tpc[k] \in {"queued", "skipped", "done"}
       /\ tpc[k] \in {"skipped", "done"} <=> TimesReported(k) = 1
       /\ tpc[k] = "queued" <=> TimesRemaining(k) = 1

\* C39: when runWithFlags returns, every candidate flag is accounted for exactly
\* once, as one entry of the results or as one remaining flag, so that
\* totalFetched = results + remaining, and every admitted task has one result
C39_CompleteAccounting ==
  [][(mainPc \notin {"standalone", "returned"} /\ mainPc' = "returned")
       => Accounted']_vars

\* a run has returned with one flag skipped for an existing review, one task
\* recorded and one flag remaining
C39_Witness_AllKinds ==
  /\ mainPc = "returned"
  /\ Len(queue) = 1
  /\ \E i \in 1..Len(results) : results[i].status = "skipped" /\ tpc[results[i].key] = "skipped"
  /\ \E k \in RunKeys : tpc[k] = "done" /\ TimesReported(k) = 1

\* ------------------------------------------------------------ C40: dry-run
\* a step deletes the branch of some flag key on some origin
DeletesRemoteBranch == \E k \in Keys : ~(remoteBranch[k] \subseteq remoteBranch'[k])

\* a step of cleanupStaleWorktrees: it starts, or handles one workspace directory
ReclaimStep == mainPc' = "cleanup" \/ (mainPc = "cleanup" /\ workspace' # workspace)

\* a step reaches or takes commitAndPushMultiRepo, or leaves a pushed repository
\* or a PR behind
PushesOrOpensPR ==
  \E f \in Keys : \/ tpc'[f] = "commit"
                   \/ prRepos'[f] # {}
                   \/ repoResults'[f] # Undefined

\* C40: in dry-run no step reclaims a stale workspace, deletes a remote branch,
\* pushes a commit or creates or updates a PR, whatever the outcome of the task
C40_DryRunNoOutwardChange ==
  [][dryRun => (~ReclaimStep /\ ~DeletesRemoteBranch /\ ~PushesOrOpensPR
                /\ history' = history)]_vars

\* a dry-run remove command for a flag with an open PR has set up its workspace,
\* the agent has succeeded, and the branch of the PR is still on the origin
C40_Witness_DryRunOverOpenPR ==
  /\ dryRun
  /\ remoteBranch[1] # {}
  /\ scaffoldResult[1]
  /\ tpc[1] = "finally"
  /\ outcome[1] = "success"

====
